---- MODULE Spec2Model ----
(***************************************************************************)
(* A model of the JSON value library (src/src/JSON.cpp): the value tree    *)
(* with its encoding cache, the encoder (ToString), the parser             *)
(* (FromString) with its number grammar, escape engine and structural      *)
(* scanner.                                                                *)
(*                                                                         *)
(* Text is modelled as a sequence of Unicode codepoints (naturals).  A     *)
(* std::string holding UTF-8 is modelled by the codepoint sequence it      *)
(* decodes to.  A double is modelled by an exact decimal (sign, mantissa,  *)
(* power of ten); the inputs are bounded so that every double the model    *)
(* builds has at most six significant digits.                              *)
(***************************************************************************)
EXTENDS Integers, Sequences, FiniteSets, TLC

(***************************************************************************)
(* Bounds of the model.                                                    *)
(***************************************************************************)
MaxNumLen == 4
MaxTokens == 2
MaxContTokens == 3
MaxOps == 2
MaxCalls == 3
MaxEncodes == 2
MaxSuffix == 2
MaxCpSamples == 40
MaxWidth == 2
MaxEntryTokens == 3
MaxHeapOps == 2
MaxDirectOps == 3
MaxStringLen == 2
MaxPad == 2

(***************************************************************************)
(* Generic helpers on sequences.                                           *)
(***************************************************************************)
SubSeqFrom(s, i) == SubSeq(s, i, Len(s))

\* The loops of the source over the codepoints of a text are modelled as folds
\* of the loop body over the range lo..hi of the sequence.  Each fold splits the
\* range in halves, so that the evaluation depth grows with the logarithm of
\* the length of the text.
RECURSIVE ConcatRange(_, _, _)
ConcatRange(ss, lo, hi) ==
    IF lo > hi THEN <<>>
    ELSE IF lo = hi THEN ss[lo]
    ELSE LET mid == (lo + hi) \div 2
         IN  ConcatRange(ss, lo, mid) \o ConcatRange(ss, mid + 1, hi)

Concat(ss) == ConcatRange(ss, 1, Len(ss))

RECURSIVE SeqsUpTo(_, _)
SeqsUpTo(S, n) ==
    IF n = 0 THEN {<<>>}
    ELSE LET prev == SeqsUpTo(S, n - 1)
         IN  prev \cup {Append(p, x) : p \in {q \in prev : Len(q) = n - 1}, x \in S}

Spaces(n) == [i \in 1..n |-> 32]

MinOf(S) == CHOOSE x \in S : \A y \in S : x <= y

(***************************************************************************)
(* The lookup tables of the anonymous namespace.                           *)
(***************************************************************************)
WHITESPACES == {32, 9, 13, 10}

FLOAT_INDICATORS == {46, 101, 69}

SPECIAL_ESCAPE_DECODINGS ==
    (34 :> 34) @@ (92 :> 92) @@ (47 :> 47) @@ (98 :> 8) @@
    (102 :> 12) @@ (110 :> 10) @@ (114 :> 13) @@ (116 :> 9)

SPECIAL_ESCAPE_ENCODINGS ==
    (34 :> 34) @@ (92 :> 92) @@ (47 :> 47) @@ (8 :> 98) @@
    (12 :> 102) @@ (10 :> 110) @@ (13 :> 114) @@ (9 :> 116)

(***************************************************************************)
(* The Unicode codec (Utf8::Utf8) is an external collaborator.  Text is    *)
(* kept as codepoints, so encode followed by decode is the identity on     *)
(* Unicode scalar values; a codepoint that is no scalar value (a surrogate *)
(* or a value above 0x10FFFF) is replaced by U+FFFD.                       *)
(***************************************************************************)
IsScalarValue(cp) == (cp >= 0 /\ cp < 55296) \/ (cp > 57343 /\ cp <= 1114111)

Utf8Encode(cps) == [i \in 1..Len(cps) |-> IF IsScalarValue(cps[i]) THEN cps[i] ELSE 65533]

(***************************************************************************)
(* findFirstNotOf / findFirstOf.  Positions are 0-based as in the source;  *)
(* the backward search returns one past the position found.                *)
(***************************************************************************)
findFrom(codepoints, searchSet, forwardDirection, wantMember) ==
    LET codepointsSize == Len(codepoints)
        At(i) == codepoints[(IF forwardDirection THEN i ELSE codepointsSize - i - 1) + 1]
        hits == {i \in 0..(codepointsSize - 1) : (At(i) \in searchSet) = wantMember}
    IN  IF hits = {} THEN codepointsSize
        ELSE IF forwardDirection THEN MinOf(hits) ELSE codepointsSize - MinOf(hits)

\* a variant whose backward search stops at the last codepoint, whatever it is
findFirstNotOfKeepingEnd(codepoints, searchSet, forwardDirection) ==
    IF forwardDirection THEN findFrom(codepoints, searchSet, TRUE, FALSE)
    ELSE Len(codepoints)

findFirstNotOf(codepoints, searchSet, forwardDirection) ==
    findFrom(codepoints, searchSet, forwardDirection, FALSE)

findFirstOf(codepoints, searchSet, forwardDirection) ==
    findFrom(codepoints, searchSet, forwardDirection, TRUE)

(***************************************************************************)
(* codepointToFourHexDigits                                                *)
(***************************************************************************)
HexDigitChar(nibble) == IF nibble < 10 THEN nibble + 48 ELSE (nibble - 10) + 65

codepointToFourHexDigits(codepoint) ==
    [i \in 1..4 |-> HexDigitChar((codepoint \div (16 ^ (4 - i))) % 16)]

(***************************************************************************)
(* escape: the escaped version of a string under the encoding options.     *)
(***************************************************************************)
HighSurrogate(codepoint) == 55296 + (((codepoint - 65536) \div 1024) % 1024)

\* a variant that keeps eight bits of the low half instead of ten
LowSurrogateEightBits(codepoint) == 56320 + ((codepoint - 65536) % 256)

LowSurrogate(codepoint) == 56320 + ((codepoint - 65536) % 1024)

\* a variant that gives the short form to every codepoint of the table, the
\* solidus included
escapeOneWithSolidus(codepoint, options) ==
    IF codepoint \in DOMAIN SPECIAL_ESCAPE_ENCODINGS
    THEN <<92, SPECIAL_ESCAPE_ENCODINGS[codepoint]>>
    ELSE IF codepoint < 32
    THEN <<92, 117>> \o codepointToFourHexDigits(codepoint)
    ELSE IF options.escapeNonAscii /\ codepoint > 127
    THEN IF codepoint > 65535
         THEN <<92, 117>> \o codepointToFourHexDigits(HighSurrogate(codepoint))
              \o <<92, 117>> \o codepointToFourHexDigits(LowSurrogate(codepoint))
         ELSE <<92, 117>> \o codepointToFourHexDigits(codepoint)
    ELSE Utf8Encode(<<codepoint>>)

escapeOne(codepoint, options) ==
    IF codepoint = 34 \/ codepoint = 92 \/ codepoint < 32
    THEN IF codepoint \in DOMAIN SPECIAL_ESCAPE_ENCODINGS
         THEN <<92, SPECIAL_ESCAPE_ENCODINGS[codepoint]>>
         ELSE <<92, 117>> \o codepointToFourHexDigits(codepoint)
    ELSE IF options.escapeNonAscii /\ codepoint > 127
    THEN IF codepoint > 65535
         THEN <<92, 117>> \o codepointToFourHexDigits(HighSurrogate(codepoint))
              \o <<92, 117>> \o codepointToFourHexDigits(LowSurrogate(codepoint))
         ELSE <<92, 117>> \o codepointToFourHexDigits(codepoint)
    ELSE Utf8Encode(<<codepoint>>)

escape(s, options) == Concat([i \in 1..Len(s) |-> escapeOne(s[i], options)])

(***************************************************************************)
(* decodeString: the unescape state machine FromString uses.  The result   *)
(* is [ok, output].  state 0 is the normal state, 1 follows a backslash,   *)
(* 2..5 read the four hex digits of a \u escape.  The loops of the source  *)
(* are folds of their body over the codepoints.                            *)
(***************************************************************************)
\* a variant that knows the digits and the upper-case letters only
IsUpperHexDigit(c) == (c >= 48 /\ c <= 57) \/ (c >= 65 /\ c <= 70)

IsHexDigit(c) == (c >= 48 /\ c <= 57) \/ (c >= 65 /\ c <= 70) \/ (c >= 97 /\ c <= 102)

HexValue(c) ==
    IF c >= 48 /\ c <= 57 THEN c - 48
    ELSE IF c >= 65 /\ c <= 70 THEN c - 65 + 10
    ELSE c - 97 + 10

\* The sum is taken in 32-bit unsigned arithmetic in the source; for halves in
\* 0xD800..0xDFFF it lies in 0xFC00..0x2103FF, so no reduction changes it.
CombineSurrogates(firstHalfOfSurrogatePair, secondHalfOfSurrogatePair) ==
    ((firstHalfOfSurrogatePair - 55296) * 1024) + (secondHalfOfSurrogatePair - 56320) + 65536

\* the body of the loop over the codepoints; returned is set by "return false"
decodeStringStep(st, codepoint) ==
    LET fail == [st EXCEPT !.returned = TRUE] IN
    IF st.returned THEN st
    ELSE IF st.state = 0 THEN
        IF codepoint = 92 THEN [st EXCEPT !.state = 1]
        ELSE IF st.firstHalfOfSurrogatePair = 0
        THEN [st EXCEPT !.output = Append(@, codepoint)]
        ELSE fail
    ELSE IF st.state = 1 THEN
        IF codepoint = 117
        THEN [st EXCEPT !.state = 2, !.cpFromHexDigit = 0, !.hexDigitsOriginal = <<92, 117>>]
        ELSE IF st.firstHalfOfSurrogatePair = 0
        THEN IF codepoint \notin DOMAIN SPECIAL_ESCAPE_DECODINGS
             THEN fail
             ELSE [st EXCEPT !.output = Append(@, SPECIAL_ESCAPE_DECODINGS[codepoint]),
                             !.state = 0]
        ELSE fail
    ELSE \* states 2..5: the four hex digits
        IF ~IsHexDigit(codepoint) THEN fail
        ELSE LET cp == st.cpFromHexDigit * 16 + HexValue(codepoint)
                 st1 == [st EXCEPT !.hexDigitsOriginal = Append(@, codepoint),
                                   !.cpFromHexDigit = cp]
             IN  IF st.state + 1 # 6 THEN [st1 EXCEPT !.state = st.state + 1]
                 ELSE IF cp >= 55296 /\ cp <= 57343
                 THEN IF st.firstHalfOfSurrogatePair = 0
                      THEN [st1 EXCEPT !.state = 0, !.firstHalfOfSurrogatePair = cp]
                      ELSE [st1 EXCEPT !.state = 0, !.firstHalfOfSurrogatePair = 0,
                                       !.output = Append(@,
                                           CombineSurrogates(st.firstHalfOfSurrogatePair, cp))]
                 ELSE IF st.firstHalfOfSurrogatePair = 0
                 THEN [st1 EXCEPT !.state = 0, !.output = Append(@, cp)]
                 ELSE [st1 EXCEPT !.returned = TRUE]

\* a variant without the final switch: whatever the loop left is accepted
decodeStringEndUnchecked(st) == [ok |-> ~st.returned, output |-> st.output]

\* what follows the loop: the final switch and the return value
decodeStringEnd(st) ==
    IF st.returned THEN [ok |-> FALSE, output |-> st.output]
    ELSE [ok |-> (st.state # 1) /\ ((st.state < 2) \/ (st.state > 5)),
          output |-> IF st.state = 1 THEN Append(st.output, 117)
                     ELSE IF st.state >= 2 /\ st.state <= 5
                     THEN st.output \o st.hexDigitsOriginal
                     ELSE st.output]

RECURSIVE decodeStringLoop(_, _, _, _)
decodeStringLoop(s, lo, hi, st) ==
    IF st.returned \/ lo > hi THEN st
    ELSE IF lo = hi THEN decodeStringStep(st, s[lo])
    ELSE LET mid == (lo + hi) \div 2
         IN  decodeStringLoop(s, mid + 1, hi, decodeStringLoop(s, lo, mid, st))

decodeString(codepoints) ==
    decodeStringEnd(decodeStringLoop(codepoints, 1, Len(codepoints),
        [state |-> 0, cpFromHexDigit |-> 0, firstHalfOfSurrogatePair |-> 0,
         hexDigitsOriginal |-> <<>>, output |-> <<>>, returned |-> FALSE]))

(***************************************************************************)
(* 32-bit signed arithmetic of decodeAsInt.  Every intermediate value      *)
(* stays within 32 bits: the product is formed on 16-bit halves.           *)
(***************************************************************************)
INT_MIN == -2147483647 - 1

\* (value * 10 + digit) reduced to a 32-bit two's complement integer
MulAdd10(value, digit) ==
    LET lo  == value % 65536
        hi  == ((value - lo) \div 65536) % 65536
        t   == lo * 10 + digit
        lo2 == t % 65536
        hi2 == (hi * 10 + (t \div 65536)) % 65536
    IN  IF hi2 >= 32768 THEN (hi2 - 65536) * 65536 + lo2 ELSE hi2 * 65536 + lo2

\* C++ integer division by ten truncates toward zero
TruncDiv10(w) == IF w >= 0 \/ w % 10 = 0 THEN w \div 10 ELSE (w \div 10) + 1

\* value * -1 in 32 bits
Negate32(value) == IF value = INT_MIN THEN INT_MIN ELSE -value

(***************************************************************************)
(* decodeAsInt.  Signed overflow in "value *= 10; value += digit" is       *)
(* undefined behaviour: with wrapv the build computes in two's complement  *)
(* and evaluates the check value / 10 != previousValue; without it the     *)
(* build assumes the overflow cannot happen and the check never fires.     *)
(* The result is [type, integerValue].                                     *)
(***************************************************************************)
IntInvalid == [type |-> "Invalid", integerValue |-> 0]

\* the digits state 3 accepts
IntDigitState3(c) == c >= 49 /\ c <= 57

\* a variant that only looks for a value that became smaller
OverflowCheckByOrder(value, previousValue) == value < previousValue

\* the overflow check of state 3
OverflowCheck(value, previousValue) == TruncDiv10(value) # previousValue

\* state 1 (integral part), entered with the codepoint at index
decodeAsIntState1(st, c) ==
    IF c = 48 THEN [st EXCEPT !.state = 2]
    ELSE IF c >= 49 /\ c <= 57 THEN [st EXCEPT !.state = 3, !.value = @ + (c - 48)]
    ELSE [st EXCEPT !.state = 1, !.returned = TRUE]

\* the iterations of the while loop that end with the codepoint c consumed
\* (or with a return); state 0 passes a codepoint other than '-' on to state 1
decodeAsIntStep(st, c) ==
    IF st.returned THEN st
    ELSE IF st.state = 0 THEN
        IF c = 45 THEN [st EXCEPT !.state = 1, !.negative = TRUE]
        ELSE decodeAsIntState1(st, c)
    ELSE IF st.state = 1 THEN decodeAsIntState1(st, c)
    ELSE IF st.state = 2 THEN [st EXCEPT !.returned = TRUE]
    ELSE \* state 3
        IF IntDigitState3(c)
        THEN LET previousValue == st.value
                 value == MulAdd10(st.value, c - 48)
             IN  IF st.wrapv /\ OverflowCheck(value, previousValue)
                 THEN [st EXCEPT !.returned = TRUE]
                 ELSE [st EXCEPT !.value = value]
        ELSE [st EXCEPT !.returned = TRUE]

RECURSIVE decodeAsIntLoop(_, _, _, _)
decodeAsIntLoop(s, lo, hi, st) ==
    IF st.returned \/ lo > hi THEN st
    ELSE IF lo = hi THEN decodeAsIntStep(st, s[lo])
    ELSE LET mid == (lo + hi) \div 2
         IN  decodeAsIntLoop(s, mid + 1, hi, decodeAsIntLoop(s, lo, mid, st))

decodeAsInt(codepoints, wrapv) ==
    LET st == decodeAsIntLoop(codepoints, 1, Len(codepoints),
                      [state |-> 0, negative |-> FALSE, value |-> 0,
                       returned |-> FALSE, wrapv |-> wrapv])
    IN  IF ~st.returned /\ st.state >= 2
        THEN [type |-> "Integer",
              integerValue |-> IF st.negative THEN Negate32(st.value) ELSE st.value]
        ELSE IntInvalid

(***************************************************************************)
(* Doubles.  A double is [kind, neg, mant, exp]: kind "finite" stands for  *)
(* (-1)^neg * mant * 10^exp with mant having no trailing zero (mant = 0,   *)
(* exp = 0 for zero); "inf" and "nan" are the IEEE specials pow and the    *)
(* product can yield.                                                      *)
(***************************************************************************)
DblZero == [kind |-> "finite", neg |-> FALSE, mant |-> 0, exp |-> 0]

RECURSIVE Normalize(_, _)
Normalize(mant, exp) ==
    IF mant = 0 THEN [mant |-> 0, exp |-> 0]
    ELSE IF mant % 10 = 0 THEN Normalize(mant \div 10, exp + 1)
    ELSE [mant |-> mant, exp |-> exp]

RECURSIVE NumDigits(_)
NumDigits(n) == IF n < 10 THEN 1 ELSE 1 + NumDigits(n \div 10)

\* the decimal exponent of the leading digit
Exp10Of(mant, exp) == exp + NumDigits(mant) - 1

MAX_EXP10 == 308
MIN_EXP10 == -323

\* (magnitude + fraction) * pow(10, +-exponent) * (+-1), as IEEE computes it:
\* pow overflows to inf above 10^308 and underflows to 0 below 10^-323
MakeDouble(negativeMagnitude, magnitude, fracNum, fractionDigits, negativeExponent, exponent) ==
    LET sum  == Normalize(magnitude * (10 ^ fractionDigits) + fracNum, -fractionDigits)
        pexp == IF negativeExponent THEN -exponent ELSE exponent
    IN  IF pexp > MAX_EXP10
        THEN IF sum.mant = 0
             THEN [kind |-> "nan", neg |-> negativeMagnitude, mant |-> 0, exp |-> 0]
             ELSE [kind |-> "inf", neg |-> negativeMagnitude, mant |-> 0, exp |-> 0]
        ELSE IF pexp < MIN_EXP10 \/ sum.mant = 0
        THEN [kind |-> "finite", neg |-> negativeMagnitude, mant |-> 0, exp |-> 0]
        ELSE IF Exp10Of(sum.mant, sum.exp + pexp) > MAX_EXP10
        THEN [kind |-> "inf", neg |-> negativeMagnitude, mant |-> 0, exp |-> 0]
        ELSE IF Exp10Of(sum.mant, sum.exp + pexp) < MIN_EXP10
        THEN [kind |-> "finite", neg |-> negativeMagnitude, mant |-> 0, exp |-> 0]
        ELSE [kind |-> "finite", neg |-> negativeMagnitude,
              mant |-> sum.mant, exp |-> sum.exp + pexp]

(***************************************************************************)
(* decodeAsDouble.  The result is [type, floatingPointValue].              *)
(***************************************************************************)
DblInvalid == [type |-> "Invalid", floatingPointValue |-> DblZero]

\* a variant that leaves the digit 0 out
IsDigitOneToNine(c) == c >= 49 /\ c <= 57

IsDigit(c) == c >= 48 /\ c <= 57

\* the integral-part test of state 1 that leads to the rejecting state 2
DoubleLeadingZero(c) == c = 0

DblReturn(st) == [st EXCEPT !.returned = TRUE]

\* state 1 (integral part), entered with the codepoint at index
decodeAsDoubleState1(st, c) ==
    IF DoubleLeadingZero(c) THEN [st EXCEPT !.state = 2]
    ELSE IF IsDigit(c) THEN [st EXCEPT !.state = 3, !.magnitude = @ + (c - 48)]
    ELSE DblReturn([st EXCEPT !.state = 1])

\* state 8 (exponent digits), entered with the codepoint at index
decodeAsDoubleState8(st, c) ==
    IF IsDigit(c)
    THEN LET previousExponent == st.exponent
             exponent == st.exponent * 10 + (c - 48)
         IN  IF previousExponent # exponent \div 10
             THEN DblReturn([st EXCEPT !.state = 8])
             ELSE [st EXCEPT !.state = 8, !.exponent = exponent]
    ELSE DblReturn([st EXCEPT !.state = 8])

\* the iterations of the while loop that end with the codepoint c consumed (or
\* with a return): states 0 and 6 pass a codepoint that is no sign on to the
\* next state, state 7 passes every codepoint on to state 8
decodeAsDoubleStep(st, c) ==
    IF st.returned THEN st
    ELSE CASE st.state = 0 ->
                IF c = 45 THEN [st EXCEPT !.state = 1, !.negativeMagnitude = TRUE]
                ELSE decodeAsDoubleState1(st, c)
           [] st.state = 1 -> decodeAsDoubleState1(st, c)
           [] st.state = 2 -> DblReturn(st)
           [] st.state = 3 ->
                IF IsDigit(c)
                THEN LET previousMagnitude == st.magnitude
                         magnitude == st.magnitude * 10 + (c - 48)
                     IN  IF previousMagnitude # magnitude \div 10
                         THEN DblReturn(st)
                         ELSE [st EXCEPT !.magnitude = magnitude]
                ELSE IF c = 46 THEN [st EXCEPT !.state = 4]
                ELSE IF c = 101 \/ c = 69 THEN [st EXCEPT !.state = 6]
                ELSE DblReturn(st)
           [] st.state = 4 ->
                IF IsDigit(c)
                THEN [st EXCEPT !.state = 5, !.fractionDigits = @ + 1,
                                !.fracNum = @ * 10 + (c - 48)]
                ELSE DblReturn(st)
           [] st.state = 5 ->
                IF IsDigit(c)
                THEN [st EXCEPT !.fractionDigits = @ + 1, !.fracNum = @ * 10 + (c - 48)]
                ELSE IF c = 101 \/ c = 69 THEN [st EXCEPT !.state = 6]
                ELSE DblReturn(st)
           [] st.state = 6 ->
                IF c = 45 THEN [st EXCEPT !.state = 7, !.negativeExponent = TRUE]
                ELSE IF c = 43 THEN [st EXCEPT !.state = 7]
                ELSE decodeAsDoubleState8(st, c)
           [] st.state = 7 -> decodeAsDoubleState8(st, c)
           [] OTHER -> decodeAsDoubleState8(st, c)

RECURSIVE decodeAsDoubleLoop(_, _, _, _)
decodeAsDoubleLoop(s, lo, hi, st) ==
    IF st.returned \/ lo > hi THEN st
    ELSE IF lo = hi THEN decodeAsDoubleStep(st, s[lo])
    ELSE LET mid == (lo + hi) \div 2
         IN  decodeAsDoubleLoop(s, mid + 1, hi, decodeAsDoubleLoop(s, lo, mid, st))

\* a variant whose final test lets the states 4, 6 and 7 through
decodeAsDoubleAnyEnd(codepoints) ==
    LET st == decodeAsDoubleLoop(codepoints, 1, Len(codepoints),
                  [state |-> 0, returned |-> FALSE,
                   negativeMagnitude |-> FALSE, negativeExponent |-> FALSE,
                   magnitude |-> 0, fracNum |-> 0, fractionDigits |-> 0, exponent |-> 0])
    IN  IF ~st.returned /\ (st.state >= 2)
        THEN [type |-> "FloatingPoint",
              floatingPointValue |->
                  MakeDouble(st.negativeMagnitude, st.magnitude, st.fracNum,
                             st.fractionDigits, st.negativeExponent, st.exponent)]
        ELSE DblInvalid

decodeAsDouble(codepoints) ==
    LET st == decodeAsDoubleLoop(codepoints, 1, Len(codepoints),
                  [state |-> 0, returned |-> FALSE,
                   negativeMagnitude |-> FALSE, negativeExponent |-> FALSE,
                   magnitude |-> 0, fracNum |-> 0, fractionDigits |-> 0, exponent |-> 0])
    IN  IF ~st.returned /\ (st.state >= 2) /\ (st.state # 4) /\ (st.state # 6) /\ (st.state # 7)
        THEN [type |-> "FloatingPoint",
              floatingPointValue |->
                  MakeDouble(st.negativeMagnitude, st.magnitude, st.fracNum,
                             st.fractionDigits, st.negativeExponent, st.exponent)]
        ELSE DblInvalid

(***************************************************************************)
(* The value: JSON::Impl (the tagged union, the type tag and the cached    *)
(* encoding).  The inactive members of the union are kept at their zero    *)
(* value.  objectValues, a std::map, is the sequence of its entries in     *)
(* ascending key order.                                                    *)
(***************************************************************************)
Impl ==
    [type |-> "Invalid", booleanValue |-> FALSE, integerValue |-> 0,
     floatingPointValue |-> DblZero, stringValue |-> <<>>,
     arrayValues |-> <<>>, objectValues |-> <<>>, encoding |-> <<>>]

\* enum class Type
Type ==
    {"Invalid", "Null", "Boolean", "String", "Integer", "FloatingPoint", "Array", "Object"}

JSONNull == [Impl EXCEPT !.type = "Null"]
JSONBool(value) == [Impl EXCEPT !.type = "Boolean", !.booleanValue = value]
JSONInt(value) == [Impl EXCEPT !.type = "Integer", !.integerValue = value]
JSONDouble(value) == [Impl EXCEPT !.type = "FloatingPoint", !.floatingPointValue = value]
JSONString(value) == [Impl EXCEPT !.type = "String", !.stringValue = value]
JSONOfType(type) == [Impl EXCEPT !.type = type]

RECURSIVE LexLess(_, _)
LexLess(a, b) ==
    IF b = <<>> THEN FALSE
    ELSE IF a = <<>> THEN TRUE
    ELSE IF Head(a) # Head(b) THEN Head(a) < Head(b)
    ELSE LexLess(Tail(a), Tail(b))

\* std::map::operator[] followed by assignment
RECURSIVE MapSet(_, _, _)
MapSet(m, key, value) ==
    IF m = <<>> THEN <<[key |-> key, value |-> value]>>
    ELSE IF Head(m).key = key THEN <<[key |-> key, value |-> value]>> \o Tail(m)
    ELSE IF LexLess(key, Head(m).key) THEN <<[key |-> key, value |-> value]>> \o m
    ELSE <<Head(m)>> \o MapSet(Tail(m), key, value)

MapKeys(m) == {m[i].key : i \in 1..Len(m)}

MapFind(m, key) == CHOOSE i \in 1..Len(m) : m[i].key = key

\* std::map::erase(key)
MapErase(m, key) == SelectSeq(m, LAMBDA e : e.key # key)

(***************************************************************************)
(* parseValue: the structural scanner.  It returns the span carved off,    *)
(* the new offset and the undefined behaviour it ran into: back() is       *)
(* called on the extracted span even when that span is empty.  The model   *)
(* then continues as the build does when the stray read differs from the   *)
(* delimiter.                                                              *)
(***************************************************************************)
\* whether a codepoint that equals the top of the stack of expected closers pops it
ClosesTop(expectedDelims, codepoint) ==
    expectedDelims # <<>> /\ codepoint = expectedDelims[Len(expectedDelims)]

\* the body of the loop over encodingCodepoints; done is set by "break"
parseValueStep(st, codepoint) ==
    IF st.done THEN st
    ELSE LET st1 == [st EXCEPT !.encodedValueCodepoints = Append(@, codepoint)] IN
         IF ClosesTop(st.expectedDelims, codepoint)
         THEN [st1 EXCEPT !.insideString = FALSE,
                          !.expectedDelims = SubSeq(@, 1, Len(@) - 1)]
         ELSE IF ~st.insideString
         THEN IF codepoint = 34
              THEN [st1 EXCEPT !.expectedDelims = Append(@, 34), !.insideString = TRUE]
              ELSE IF codepoint = 91 THEN [st1 EXCEPT !.expectedDelims = Append(@, 93)]
              ELSE IF codepoint = 123 THEN [st1 EXCEPT !.expectedDelims = Append(@, 125)]
              ELSE IF codepoint = st.delimeter /\ st.expectedDelims = <<>>
              THEN [st1 EXCEPT !.done = TRUE]
              ELSE st1
         ELSE st1

RECURSIVE parseValueLoop(_, _, _, _)
parseValueLoop(s, lo, hi, st) ==
    IF st.done \/ lo > hi THEN st
    ELSE IF lo = hi THEN parseValueStep(st, s[lo])
    ELSE LET mid == (lo + hi) \div 2
         IN  parseValueLoop(s, mid + 1, hi, parseValueLoop(s, lo, mid, st))

parseValueScan(encodingCodepoints, delimeter) ==
    LET st == parseValueLoop(encodingCodepoints, 1, Len(encodingCodepoints),
                  [expectedDelims |-> <<>>, insideString |-> FALSE,
                   encodedValueCodepoints |-> <<>>, done |-> FALSE,
                   delimeter |-> delimeter])
    IN  [encoded |-> st.encodedValueCodepoints, expectedDelims |-> st.expectedDelims]

\* parseValue without the test of the stack of expected closers
parseValueAnyStack(codepoints, offset, delimeter) ==
    IF codepoints = <<>> THEN [encoded |-> <<>>, offset |-> offset, ub |-> {}]
    ELSE LET r == parseValueScan(SubSeqFrom(codepoints, offset + 1), delimeter)
         IN  IF r.encoded = <<>>
             THEN [encoded |-> <<>>, offset |-> offset, ub |-> {"back_on_empty"}]
             ELSE [encoded |-> IF r.encoded[Len(r.encoded)] = delimeter
                               THEN SubSeq(r.encoded, 1, Len(r.encoded) - 1)
                               ELSE r.encoded,
                   offset |-> offset + Len(r.encoded),
                   ub |-> {}]

\* parseValue without the move of the offset past the span
parseValueKeepingOffset(codepoints, offset, delimeter) ==
    IF codepoints = <<>> THEN [encoded |-> <<>>, offset |-> offset, ub |-> {}]
    ELSE LET r == parseValueScan(SubSeqFrom(codepoints, offset + 1), delimeter)
         IN  IF r.expectedDelims = <<>>
             THEN IF r.encoded = <<>>
                  THEN [encoded |-> <<>>, offset |-> offset, ub |-> {"back_on_empty"}]
                  ELSE [encoded |-> IF r.encoded[Len(r.encoded)] = delimeter
                                    THEN SubSeq(r.encoded, 1, Len(r.encoded) - 1)
                                    ELSE r.encoded,
                        offset |-> offset,
                        ub |-> {}]
             ELSE [encoded |-> <<>>, offset |-> offset, ub |-> {}]

parseValue(codepoints, offset, delimeter) ==
    IF codepoints = <<>> THEN [encoded |-> <<>>, offset |-> offset, ub |-> {}]
    ELSE LET r == parseValueScan(SubSeqFrom(codepoints, offset + 1), delimeter)
         IN  IF r.expectedDelims = <<>>
             THEN IF r.encoded = <<>>
                  THEN [encoded |-> <<>>, offset |-> offset, ub |-> {"back_on_empty"}]
                  ELSE [encoded |-> IF r.encoded[Len(r.encoded)] = delimeter
                                    THEN SubSeq(r.encoded, 1, Len(r.encoded) - 1)
                                    ELSE r.encoded,
                        offset |-> offset + Len(r.encoded),
                        ub |-> {}]
             ELSE [encoded |-> <<>>, offset |-> offset, ub |-> {}]

(***************************************************************************)
(* FromString, parseAsArray and parseAsObject (mutually recursive).  The   *)
(* result of FromStringR is [json, ub]: the value returned when the call   *)
(* returns, and the kinds of undefined behaviour executed on the way.      *)
(***************************************************************************)
RECURSIVE FromStringR(_, _)
RECURSIVE parseAsArrayFrom(_, _, _, _, _)
RECURSIVE parseAsObjectFrom(_, _, _, _, _)

\* whether parseAsObject gives up after the scan for the value
ObjectValueScanFailed(encodedKey, encodedValue) == encodedKey = <<>>

\* a parseAsObject that takes a key of any type but Invalid
ObjectKeyAcceptedUnlessInvalid(key) == key.type # "Invalid"

\* whether parseAsObject accepts the parsed key
ObjectKeyAccepted(key) == key.type = "String"

parseAsArrayFrom(codepoints, offset, newArrValues, ub, wrapv) ==
    IF offset >= Len(codepoints)
    THEN [type |-> "Array", arrayValues |-> newArrValues, ub |-> ub]
    ELSE LET pv == parseValue(codepoints, offset, 44)
         IN  IF pv.encoded = <<>>
             THEN [type |-> "Invalid", arrayValues |-> <<>>, ub |-> ub \cup pv.ub]
             ELSE LET value == FromStringR(pv.encoded, wrapv)
                  IN  parseAsArrayFrom(codepoints, pv.offset,
                                       Append(newArrValues, value.json),
                                       ub \cup pv.ub \cup value.ub, wrapv)

parseAsArray(codepoints, wrapv) == parseAsArrayFrom(codepoints, 0, <<>>, {}, wrapv)

parseAsObjectFrom(codepoints, offset, newObjectValues, ub, wrapv) ==
    IF offset >= Len(codepoints)
    THEN [type |-> "Object", objectValues |-> newObjectValues, ub |-> ub]
    ELSE LET pk == parseValue(codepoints, offset, 58)
         IN  IF pk.encoded = <<>>
             THEN [type |-> "Invalid", objectValues |-> <<>>, ub |-> ub \cup pk.ub]
             ELSE LET key == FromStringR(pk.encoded, wrapv)
                  IN  IF ~ObjectKeyAccepted(key.json)
                      THEN [type |-> "Invalid", objectValues |-> <<>>,
                            ub |-> ub \cup pk.ub \cup key.ub]
                      ELSE LET pv == parseValue(codepoints, pk.offset, 44)
                           IN  IF ObjectValueScanFailed(pk.encoded, pv.encoded)
                               THEN [type |-> "Invalid", objectValues |-> <<>>,
                                     ub |-> ub \cup pk.ub \cup key.ub \cup pv.ub]
                               ELSE LET value == FromStringR(pv.encoded, wrapv)
                                    IN  parseAsObjectFrom(codepoints, pv.offset,
                                            MapSet(newObjectValues, key.json.stringValue,
                                                   value.json),
                                            ub \cup pk.ub \cup key.ub \cup pv.ub \cup value.ub,
                                            wrapv)

parseAsObject(codepoints, wrapv) == parseAsObjectFrom(codepoints, 0, <<>>, {}, wrapv)

\* the span [1, size - 1) of the trimmed text
Interior(remainingCodepoints) == SubSeq(remainingCodepoints, 2, Len(remainingCodepoints) - 1)

\* the test that selects the string branch
IsQuoted(encodedUtf8) == encodedUtf8[1] = 34 /\ encodedUtf8[Len(encodedUtf8)] = 34

\* the text FromString stores in the encoding of the value it returns
SourceEncoding(encodedUtf8) == encodedUtf8

FromStringR(codepoints, wrapv) ==
    LET json == Impl
        firstNonWhitespaceChar == findFirstNotOf(codepoints, WHITESPACES, TRUE)
    IN
    IF firstNonWhitespaceChar = Len(codepoints) THEN [json |-> json, ub |-> {}]
    ELSE
    LET lastNonWhitespaceChar == findFirstNotOf(codepoints, WHITESPACES, FALSE)
        remainingCodepoints == SubSeq(codepoints, firstNonWhitespaceChar + 1,
                                      lastNonWhitespaceChar)
        encodedUtf8 == Utf8Encode(remainingCodepoints)
        json1 == [json EXCEPT !.encoding = SourceEncoding(encodedUtf8)]
        size == Len(encodedUtf8)
    IN
    IF encodedUtf8 = <<>> THEN [json |-> json1, ub |-> {}]
    ELSE IF encodedUtf8[1] = 123 /\ encodedUtf8[size] = 125
    THEN LET o == parseAsObject(Interior(remainingCodepoints), wrapv)
         IN  [json |-> [json1 EXCEPT !.type = o.type, !.objectValues = o.objectValues],
              ub |-> o.ub]
    ELSE IF encodedUtf8[1] = 91 /\ encodedUtf8[size] = 93
    THEN LET a == parseAsArray(Interior(remainingCodepoints), wrapv)
         IN  [json |-> [json1 EXCEPT !.type = a.type, !.arrayValues = a.arrayValues],
              ub |-> a.ub]
    ELSE IF IsQuoted(encodedUtf8)
    THEN IF size < 2
         THEN \* the range [begin + 1, begin + 0) is no valid range
              [json |-> json1, ub |-> {"bad_range"}]
         ELSE LET d == decodeString(Interior(remainingCodepoints))
              IN  IF d.ok
                  THEN [json |-> [json1 EXCEPT !.type = "String",
                                               !.stringValue = Utf8Encode(d.output)],
                        ub |-> {}]
                  ELSE [json |-> json1, ub |-> {}]
    ELSE IF json1.encoding = <<110, 117, 108, 108>>
    THEN [json |-> [json1 EXCEPT !.type = "Null"], ub |-> {}]
    ELSE IF json1.encoding = <<116, 114, 117, 101>>
    THEN [json |-> [json1 EXCEPT !.type = "Boolean", !.booleanValue = TRUE], ub |-> {}]
    ELSE IF json1.encoding = <<102, 97, 108, 115, 101>>
    THEN [json |-> [json1 EXCEPT !.type = "Boolean", !.booleanValue = FALSE], ub |-> {}]
    ELSE IF findFirstOf(remainingCodepoints, FLOAT_INDICATORS, TRUE) # Len(remainingCodepoints)
    THEN LET d == decodeAsDouble(remainingCodepoints)
         IN  [json |-> [json1 EXCEPT !.type = d.type,
                                     !.floatingPointValue = d.floatingPointValue],
              ub |-> {}]
    ELSE LET n == decodeAsInt(remainingCodepoints, wrapv)
         IN  [json |-> [json1 EXCEPT !.type = n.type, !.integerValue = n.integerValue],
              ub |-> {}]

FromString(codepoints, wrapv) == FromStringR(codepoints, wrapv).json

(***************************************************************************)
(* The number formatters behind StringExtensions::sprintf.                 *)
(***************************************************************************)
RECURSIVE DigitsOf(_)
DigitsOf(n) == IF n < 10 THEN <<n + 48>> ELSE Append(DigitsOf(n \div 10), (n % 10) + 48)

\* the decimal digits of the magnitude of a value <= 0 (covers INT_MIN)
RECURSIVE DigitsOfNeg(_)
DigitsOfNeg(n) ==
    LET q == TruncDiv10(n)
        r == q * 10 - n
    IN  IF q = 0 THEN <<r + 48>> ELSE Append(DigitsOfNeg(q), r + 48)

\* "%d"
FormatInt(value) == IF value < 0 THEN <<45>> \o DigitsOfNeg(value) ELSE DigitsOf(value)

Zeros(n) == [i \in 1..n |-> 48]

\* "%lg" (precision 6) for a double of at most six significant digits
FormatLg(d) ==
    LET sign == IF d.neg THEN <<45>> ELSE <<>>
    IN  IF d.kind = "inf" THEN sign \o <<105, 110, 102>>
        ELSE IF d.kind = "nan" THEN sign \o <<110, 97, 110>>
        ELSE IF d.mant = 0 THEN sign \o <<48>>
        ELSE LET digits == DigitsOf(d.mant)
                 n == Len(digits)
                 X == d.exp + n - 1
             IN  IF X < -4 \/ X >= 6
                 THEN sign \o <<digits[1]>>
                      \o (IF n > 1 THEN <<46>> \o SubSeq(digits, 2, n) ELSE <<>>)
                      \o <<101>> \o (IF X < 0 THEN <<45>> ELSE <<43>>)
                      \o (LET ax == IF X < 0 THEN -X ELSE X
                          IN  IF ax < 10 THEN <<48>> \o DigitsOf(ax) ELSE DigitsOf(ax))
                 ELSE IF d.exp >= 0 THEN sign \o digits \o Zeros(d.exp)
                 ELSE IF X >= 0
                 THEN sign \o SubSeq(digits, 1, X + 1) \o <<46>> \o SubSeq(digits, X + 2, n)
                 ELSE sign \o <<48, 46>> \o Zeros(-X - 1) \o digits

(***************************************************************************)
(* ToString.  The method is const but writes the cache of every node it    *)
(* encodes, so the result is [s, json]: the string returned and the value  *)
(* with its caches as the call leaves them.                                *)
(***************************************************************************)
DefaultOptions ==
    [escapeNonAscii |-> FALSE, deleteCache |-> FALSE, prettyPrint |-> FALSE,
     depth |-> 0, spacePerIndentation |-> 4]

CRLF == <<13, 10>>

\* encoding.c_str() as %s prints it: the characters before the first NUL
CString(encoding) ==
    LET nuls == {i \in 1..Len(encoding) : encoding[i] = 0}
    IN  IF nuls = {} THEN encoding ELSE SubSeq(encoding, 1, MinOf(nuls) - 1)

InvalidText(encoding) ==
    <<40, 73, 110, 118, 97, 108, 105, 100, 32, 74, 83, 79, 78, 58, 32>>
        \o CString(encoding) \o <<41>>

\* whether ToString computes the encoding anew instead of returning the cache
NeedsEncoding(encoding, options) == options.deleteCache \/ encoding = <<>>

RECURSIVE ToStringR(_, _)
RECURSIVE EncodeArray(_, _, _, _, _, _)
RECURSIVE EncodeObject(_, _, _, _, _, _)

\* the loop over the elements: the compact and the wrapped text so far, and
\* the elements with the caches the nested calls left
EncodeArray(values, i, nestedOptions, encoding, wrappedEncoding, done) ==
    IF i > Len(values)
    THEN [encoding |-> encoding, wrappedEncoding |-> wrappedEncoding, values |-> done]
    ELSE LET sepC == IF i = 1 THEN <<>> ELSE <<44>>
             sepW == IF i = 1 THEN <<>> ELSE <<44>> \o CRLF
             r == ToStringR(values[i], nestedOptions)
             nestedIndentation ==
                 Spaces(nestedOptions.depth * nestedOptions.spacePerIndentation)
         IN  EncodeArray(values, i + 1, nestedOptions,
                         encoding \o sepC \o r.s,
                         wrappedEncoding \o sepW \o nestedIndentation \o r.s,
                         Append(done, r.json))

EncodeObject(entries, i, nestedOptions, encoding, wrappedEncoding, done) ==
    IF i > Len(entries)
    THEN [encoding |-> encoding, wrappedEncoding |-> wrappedEncoding, entries |-> done]
    ELSE LET sepC == IF i = 1 THEN <<>> ELSE <<44>>
             sepW == IF i = 1 THEN <<>> ELSE <<44>> \o CRLF
             jsonKey == ToStringR(JSONString(entries[i].key), nestedOptions)
             r == ToStringR(entries[i].value, nestedOptions)
             encodedValue ==
                 jsonKey.s \o (IF nestedOptions.prettyPrint THEN <<58, 32>> ELSE <<58>>) \o r.s
             nestedIndentation ==
                 Spaces(nestedOptions.depth * nestedOptions.spacePerIndentation)
         IN  EncodeObject(entries, i + 1, nestedOptions,
                          encoding \o sepC \o encodedValue,
                          wrappedEncoding \o sepW \o nestedIndentation \o encodedValue,
                          Append(done, [key |-> entries[i].key, value |-> r.json]))

ToStringR(json, options) ==
    IF json.type = "Invalid"
    THEN [s |-> InvalidText(json.encoding), json |-> json]
    ELSE IF ~NeedsEncoding(json.encoding, options)
    THEN [s |-> json.encoding, json |-> json]
    ELSE
    LET nestedOptions == [options EXCEPT !.depth = @ + 1]
        indentation == Spaces(options.depth * options.spacePerIndentation)
    IN
    CASE json.type = "Null" ->
            LET e == <<110, 117, 108, 108>>
            IN  [s |-> e, json |-> [json EXCEPT !.encoding = e]]
      [] json.type = "Boolean" ->
            LET e == IF json.booleanValue THEN <<116, 114, 117, 101>>
                     ELSE <<102, 97, 108, 115, 101>>
            IN  [s |-> e, json |-> [json EXCEPT !.encoding = e]]
      [] json.type = "String" ->
            LET e == <<34>> \o escape(json.stringValue, options) \o <<34>>
            IN  [s |-> e, json |-> [json EXCEPT !.encoding = e]]
      [] json.type = "Integer" ->
            LET e == FormatInt(json.integerValue)
            IN  [s |-> e, json |-> [json EXCEPT !.encoding = e]]
      [] json.type = "FloatingPoint" ->
            LET e == FormatLg(json.floatingPointValue)
            IN  [s |-> e, json |-> [json EXCEPT !.encoding = e]]
      [] json.type = "Array" ->
            LET r == EncodeArray(json.arrayValues, 1, nestedOptions, <<91>>, <<91>> \o CRLF, <<>>)
                e == IF options.prettyPrint
                     THEN r.wrappedEncoding \o CRLF \o indentation \o <<93>>
                     ELSE r.encoding \o <<93>>
            IN  [s |-> e, json |-> [json EXCEPT !.encoding = e, !.arrayValues = r.values]]
      [] OTHER -> \* Object
            LET r == EncodeObject(json.objectValues, 1, nestedOptions,
                                  <<123>>, <<123>> \o CRLF, <<>>)
                e == IF options.prettyPrint
                     THEN r.wrappedEncoding \o CRLF \o indentation \o <<125>>
                     ELSE r.encoding \o <<125>>
            IN  [s |-> e, json |-> [json EXCEPT !.encoding = e, !.objectValues = r.entries]]

\* the string ToString returns (TLC reserves the name ToString)
ToStringS(json, options) == ToStringR(json, options).s

(***************************************************************************)
(* operator== with compareArrays and compareObjects.                       *)
(***************************************************************************)
DoubleEq(a, b) ==
    IF a.kind = "nan" \/ b.kind = "nan" THEN FALSE
    ELSE IF a.kind # b.kind THEN FALSE
    ELSE IF a.kind = "inf" THEN a.neg = b.neg
    ELSE IF a.mant = 0 THEN b.mant = 0
    ELSE a.neg = b.neg /\ a.mant = b.mant /\ a.exp = b.exp

\* a comparison of the types and of the cached encodings
EqualsByEncoding(a, b) == a.type = b.type /\ a.encoding = b.encoding

RECURSIVE Equals(_, _)

compareArrays(lhs, rhs) ==
    IF Len(lhs) # Len(rhs) THEN FALSE
    ELSE \A i \in 1..Len(lhs) : Equals(lhs[i], rhs[i])

\* a comparison of the key sets alone
compareObjectsByKeys(lhs, rhs) == MapKeys(lhs) = MapKeys(rhs)

compareObjects(lhs, rhs) ==
    IF MapKeys(lhs) # MapKeys(rhs) THEN FALSE
    ELSE \A i \in 1..Len(lhs) : Equals(lhs[i].value, rhs[MapFind(rhs, lhs[i].key)].value)

Equals(a, b) ==
    IF a.type # b.type THEN FALSE
    ELSE CASE a.type = "Invalid" -> TRUE
           [] a.type = "Null" -> TRUE
           [] a.type = "Boolean" -> a.booleanValue = b.booleanValue
           [] a.type = "String" -> a.stringValue = b.stringValue
           [] a.type = "Integer" -> a.integerValue = b.integerValue
           [] a.type = "FloatingPoint" -> DoubleEq(a.floatingPointValue, b.floatingPointValue)
           [] a.type = "Array" -> compareArrays(a.arrayValues, b.arrayValues)
           [] OTHER -> compareObjects(a.objectValues, b.objectValues)

(***************************************************************************)
(* The mutators.  add goes through insert; both store a copy of the        *)
(* argument made by copyFrom, which copies type and payload of every node  *)
(* and leaves the encoding of the copy empty.                              *)
(***************************************************************************)
RECURSIVE copyFrom(_)
copyFrom(otherElement) ==
    [otherElement EXCEPT
        !.encoding = <<>>,
        !.arrayValues = [i \in 1..Len(@) |-> copyFrom(@[i])],
        !.objectValues = [i \in 1..Len(@) |-> [key |-> @[i].key, value |-> copyFrom(@[i].value)]]]

\* an insert that ignores the position
InsertAtFront(s, index, e) == <<e>> \o s

InsertAt(s, index, e) == SubSeq(s, 1, index) \o <<e>> \o SubSeq(s, index + 1, Len(s))

Min(a, b) == IF a < b THEN a ELSE b

insert(json, value, index) ==
    IF json.type # "Array" THEN json
    ELSE [json EXCEPT
            !.arrayValues = InsertAt(@, Min(index, Len(@)), copyFrom(value)),
            !.encoding = <<>>]

add(json, value) ==
    IF json.type # "Array" THEN json
    ELSE [insert(json, value, Len(json.arrayValues)) EXCEPT !.encoding = <<>>]

removeAt(json, index) ==
    IF json.type # "Array" THEN json
    ELSE IF index < Len(json.arrayValues)
    THEN [json EXCEPT
            !.arrayValues = SubSeq(@, 1, index) \o SubSeq(@, index + 2, Len(@)),
            !.encoding = <<>>]
    ELSE json

removeKey(json, key) ==
    IF json.type # "Object" THEN json
    ELSE [json EXCEPT !.objectValues = MapErase(@, key), !.encoding = <<>>]

set(json, key, value) ==
    IF json.type # "Object" THEN json
    ELSE [json EXCEPT !.objectValues = MapSet(@, key, copyFrom(value)), !.encoding = <<>>]

(***************************************************************************)
(* The accessors.                                                          *)
(***************************************************************************)
getSize(json) ==
    IF json.type = "Array" THEN Len(json.arrayValues)
    ELSE IF json.type = "Object" THEN Len(json.objectValues)
    ELSE 0

has(json, key) == json.type = "Object" /\ key \in MapKeys(json.objectValues)

(***************************************************************************)
(* The coercions.  (int) of a double truncates toward zero when the result *)
(* fits in an int; otherwise the conversion is undefined behaviour, and    *)
(* the builds differ in what they return: the x86 "integer indefinite"     *)
(* value, the saturated value, or 0.  operator_int is the set of the       *)
(* values the call can return.                                             *)
(***************************************************************************)
operator_bool(json) == IF json.type = "Boolean" THEN json.booleanValue ELSE FALSE

operator_string(json) == IF json.type = "String" THEN json.stringValue ELSE <<>>

\* whether the integral part of the double is a value of int
DoubleFitsInt(d) ==
    /\ d.kind = "finite"
    /\ \/ d.exp <= 0
       \/ Exp10Of(d.mant, d.exp) < 9
       \/ Exp10Of(d.mant, d.exp) = 9 /\ d.mant <= 2147483647 \div (10 ^ d.exp)

\* (int)d for a double whose integral part fits
TruncateToInt(d) ==
    LET magnitude == IF d.exp >= 0 THEN d.mant * (10 ^ d.exp)
                     ELSE IF -d.exp > 9 THEN 0
                     ELSE d.mant \div (10 ^ (-d.exp))
    IN  IF d.neg THEN -magnitude ELSE magnitude

UndefinedIntOutcomes == {INT_MIN, 0, 2147483647}

operator_int(json) ==
    IF json.type = "Integer" THEN {json.integerValue}
    ELSE IF json.type = "FloatingPoint"
    THEN IF DoubleFitsInt(json.floatingPointValue)
         THEN {TruncateToInt(json.floatingPointValue)}
         ELSE UndefinedIntOutcomes
    ELSE {0}

\* (double)value for an int above INT_MIN, whose magnitude the mantissa holds
DoubleOfInt(value) ==
    LET n == Normalize(IF value < 0 THEN -value ELSE value, 0)
    IN  [kind |-> "finite", neg |-> value < 0, mant |-> n.mant, exp |-> n.exp]

operator_double(json) ==
    IF json.type = "FloatingPoint" THEN json.floatingPointValue
    ELSE IF json.type = "Integer" THEN DoubleOfInt(json.integerValue)
    ELSE DblZero

(***************************************************************************)
(* The values as objects in memory.  Every JSON object is a node with an   *)
(* identity; an Array holds shared pointers to its elements and an Object  *)
(* maps its keys to shared pointers, here the identities of the nodes, and *)
(* operator[] hands such a pointer out (0 is the null pointer).  heap is   *)
(* the sequence of the nodes allocated so far; a node is an Impl whose     *)
(* arrayValues and objectValues hold identities in the place of values.    *)
(***************************************************************************)
RECURSIVE TreeOf(_, _)
\* the value a node stands for: the node with its children in place
TreeOf(heap, id) ==
    [heap[id] EXCEPT
        !.arrayValues = [i \in 1..Len(@) |-> TreeOf(heap, @[i])],
        !.objectValues = [i \in 1..Len(@) |-> [key |-> @[i].key,
                                               value |-> TreeOf(heap, @[i].value)]]]

\* the identities a node points to
ChildrenOf(node) ==
    {node.arrayValues[i] : i \in 1..Len(node.arrayValues)}
        \cup {node.objectValues[i].value : i \in 1..Len(node.objectValues)}

RECURSIVE Alloc(_, _)
RECURSIVE AllocAll(_, _, _, _)
\* new nodes for the values from the i-th on
AllocAll(heap, values, i, ids) ==
    IF i > Len(values) THEN [heap |-> heap, ids |-> ids]
    ELSE LET r == Alloc(heap, values[i])
         IN  AllocAll(r.heap, values, i + 1, Append(ids, r.id))

\* new nodes for a whole value: new JSON(...) for it and for each value below it
Alloc(heap, json) ==
    LET elements == AllocAll(heap, json.arrayValues, 1, <<>>)
        mapped == AllocAll(elements.heap,
                           [i \in 1..Len(json.objectValues) |-> json.objectValues[i].value],
                           1, <<>>)
        node == [json EXCEPT
                    !.arrayValues = elements.ids,
                    !.objectValues = [i \in 1..Len(@) |-> [key |-> @[i].key,
                                                           value |-> mapped.ids[i]]]]
    IN  [heap |-> Append(mapped.heap, node), id |-> Len(mapped.heap) + 1]

\* a store that keeps the pointer to the argument itself
StoreAlias(heap, value) == [heap |-> heap, id |-> value]

\* a copy of the top node only, pointing to the children of the original
StoreShallow(heap, value) ==
    [heap |-> Append(heap, [heap[value] EXCEPT !.encoding = <<>>]), id |-> Len(heap) + 1]

\* std::make_shared<JSON>(value), JSON(const JSON &) and the copy assignment:
\* a new object built by copyFrom, which copies every value below it in turn
StoreCopy(heap, value) == Alloc(heap, copyFrom(TreeOf(heap, value)))

\* operator[](size_t): the pointer to the element, or null
IndexByPosition(heap, this, index) ==
    IF heap[this].type = "Array" /\ index < Len(heap[this].arrayValues)
    THEN heap[this].arrayValues[index + 1]
    ELSE 0

\* operator[](const std::string &): the pointer to the mapped value, or null
IndexByKey(heap, this, key) ==
    IF heap[this].type = "Object" /\ key \in MapKeys(heap[this].objectValues)
    THEN heap[this].objectValues[MapFind(heap[this].objectValues, key)].value
    ELSE 0

\* operator[](int): the index is cast to size_t, which takes a negative int
\* to a value above 2^63, beyond the size of any vector
IndexByInt(heap, this, index) ==
    IF index < 0 THEN 0 ELSE IndexByPosition(heap, this, index)

\* insert on the object this, with the argument another object in memory
\* insert that leaves the cached encoding of the array in place
insertHKeepingCache(heap, this, value, index) ==
    IF heap[this].type # "Array" THEN heap
    ELSE LET c == StoreCopy(heap, value)
         IN  [c.heap EXCEPT ![this] =
                 [@ EXCEPT !.arrayValues = InsertAt(@, Min(index, Len(@)), c.id)]]

insertH(heap, this, value, index) ==
    IF heap[this].type # "Array" THEN heap
    ELSE LET c == StoreCopy(heap, value)
         IN  [c.heap EXCEPT ![this] =
                 [@ EXCEPT !.arrayValues = InsertAt(@, Min(index, Len(@)), c.id),
                           !.encoding = <<>>]]

\* add with the cached encoding cleared before the type is looked at
addHClearingFirst(heap, this, value) ==
    LET cleared == [heap EXCEPT ![this] = [@ EXCEPT !.encoding = <<>>]]
    IN  IF heap[this].type # "Array" THEN cleared
        ELSE insertH(cleared, this, value, Len(heap[this].arrayValues))

addH(heap, this, value) ==
    IF heap[this].type # "Array" THEN heap
    ELSE LET h == insertH(heap, this, value, Len(heap[this].arrayValues))
         IN  [h EXCEPT ![this] = [@ EXCEPT !.encoding = <<>>]]

removeAtH(heap, this, index) ==
    IF heap[this].type # "Array" THEN heap
    ELSE IF index < Len(heap[this].arrayValues)
    THEN [heap EXCEPT ![this] =
             [@ EXCEPT !.arrayValues = SubSeq(@, 1, index) \o SubSeq(@, index + 2, Len(@)),
                       !.encoding = <<>>]]
    ELSE heap

\* remove(key) without the clearing of the cached encoding
removeKeyKeepingCache(heap, this, key) ==
    IF heap[this].type # "Object" THEN heap
    ELSE [heap EXCEPT ![this] = [@ EXCEPT !.objectValues = MapErase(@, key)]]

removeKeyH(heap, this, key) ==
    IF heap[this].type # "Object" THEN heap
    ELSE [heap EXCEPT ![this] =
             [@ EXCEPT !.objectValues = MapErase(@, key), !.encoding = <<>>]]

setH(heap, this, key, value) ==
    IF heap[this].type # "Object" THEN heap
    ELSE LET c == StoreCopy(heap, value)
         IN  [c.heap EXCEPT ![this] =
                 [@ EXCEPT !.objectValues = MapSet(@, key, c.id), !.encoding = <<>>]]

RECURSIVE WriteCaches(_, _, _)
RECURSIVE WriteCachesAll(_, _, _, _)
WriteCachesAll(heap, ids, values, i) ==
    IF i > Len(ids) THEN heap
    ELSE WriteCachesAll(WriteCaches(heap, ids[i], values[i]), ids, values, i + 1)

\* the encodings ToString left in the object and in the objects below it
WriteCaches(heap, id, json) ==
    LET h1 == [heap EXCEPT ![id] = [@ EXCEPT !.encoding = json.encoding]]
        h2 == WriteCachesAll(h1, heap[id].arrayValues, json.arrayValues, 1)
    IN  WriteCachesAll(h2,
            [i \in 1..Len(heap[id].objectValues) |-> heap[id].objectValues[i].value],
            [i \in 1..Len(json.objectValues) |-> json.objectValues[i].value], 1)

\* ToString on the object this: the string, and memory with the caches filled
ToStringH(heap, this, options) ==
    LET r == ToStringR(TreeOf(heap, this), options)
    IN  [s |-> r.s, heap |-> WriteCaches(heap, this, r.json)]

(***************************************************************************)
(* State.                                                                  *)
(*   wrapv     how the build treats signed overflow in decodeAsInt         *)
(*   pc        "start", "built" (constructed), "parsed", "encoded",        *)
(*             "reparsed", "scanning" (inside FromString), or "fault"      *)
(*             (undefined behaviour ended the run)                         *)
(*   json      the value operated on                                       *)
(*   text      the text given to FromString                                *)
(*   outs      the ToString calls since the value was last changed, each   *)
(*             [options, s]                                                *)
(*   reparsed  the value FromString returned for the last encoding         *)
(*   nops      the number of mutations applied                             *)
(*   heap      the objects in memory, for the runs that work on objects    *)
(*             through pointers                                            *)
(*   roots     the objects held in the variables a and b (0: none yet)     *)
(*   op        the last operation on an object in memory: its name, the    *)
(*             variable and the object it was called on, its arguments,    *)
(*             what it returned (out for ToString, got for the accessors), *)
(*             and the values of that object and of a and b before it      *)
(*   frames    the FromString calls in progress, for the runs that follow  *)
(*             the scan loops step by step, the innermost call last        *)
(***************************************************************************)
VARIABLES wrapv, pc, json, text, outs, reparsed, nops, heap, roots, op, frames

vars == <<wrapv, pc, json, text, outs, reparsed, nops, heap, roots, op, frames>>

\* the part of the state that describes the objects in memory
memory == <<heap, roots, op>>

\* the part of the state that describes the single value json
single == <<pc, json, text, outs, reparsed>>

\* no operation yet
NoOp ==
    [name |-> "none", root |-> "a", target |-> 0, arg |-> Impl, self |-> FALSE,
     index |-> 0, key |-> <<>>, options |-> DefaultOptions, out |-> <<>>,
     got |-> <<>>, targetBefore |-> Impl, before |-> [a |-> Impl, b |-> Impl]]

\* nothing parsed, built or encoded yet
Start ==
    /\ pc = "start"
    /\ json = Impl
    /\ outs = <<>>
    /\ reparsed = Impl
    /\ nops = 0
    /\ heap = <<>>
    /\ roots = [a |-> 0, b |-> 0]
    /\ op = NoOp
    /\ frames = <<>>

\* the outcomes of a FromString call that executed undefined behaviour
ParseOutcomes(ub) ==
    IF "bad_range" \in ub THEN {"fault"}
    ELSE IF ub # {} THEN {"fault", "parsed"}
    ELSE {"parsed"}

\* json = JSON::FromString(text)
Parse ==
    /\ pc = "start"
    /\ LET r == FromStringR(text, wrapv)
       IN  /\ pc' \in ParseOutcomes(r.ub)
           /\ json' = IF pc' = "fault" THEN json ELSE r.json
    /\ UNCHANGED <<wrapv, frames, text, outs, reparsed, nops>>
    /\ UNCHANGED memory

\* json = JSON(literal), JSON(Type) or a value assembled from those
Construct(Values) ==
    /\ pc = "start"
    /\ \E v \in Values : json' = v
    /\ pc' = "built"
    /\ UNCHANGED <<wrapv, frames, text, outs, reparsed, nops>>
    /\ UNCHANGED memory

\* json.ToString(options)
Encode(Options, maxCalls) ==
    /\ pc \in {"built", "parsed", "encoded"}
    /\ Len(outs) < maxCalls
    /\ \E options \in Options :
          LET r == ToStringR(json, options)
          IN  /\ json' = r.json
              /\ outs' = Append(outs, [options |-> options, s |-> r.s])
    /\ pc' = "encoded"
    /\ UNCHANGED <<wrapv, frames, text, reparsed, nops>>
    /\ UNCHANGED memory

\* reparsed = JSON::FromString(the string the last ToString returned)
Reparse ==
    /\ pc = "encoded"
    /\ LET r == FromStringR(outs[Len(outs)].s, wrapv)
       IN  /\ pc' \in (IF r.ub = {} THEN {"reparsed"} ELSE {"fault"})
           /\ reparsed' = r.json
    /\ text' = outs[Len(outs)].s
    /\ UNCHANGED <<wrapv, frames, json, outs, nops>>
    /\ UNCHANGED memory

\* reparsed = JSON::FromString(t), t one of the given texts
ReparseText(Texts) ==
    /\ pc = "encoded"
    /\ \E t \in Texts :
          \E r \in {FromStringR(t, wrapv)} :
              /\ pc' \in (IF r.ub = {} THEN {"reparsed"} ELSE {"fault"})
              /\ reparsed' = r.json
              /\ text' = t
    /\ UNCHANGED <<wrapv, frames, json, outs, nops>>
    /\ UNCHANGED memory

\* reparsed = JSON::FromString(t), t one of the given texts; label names the
\* place in the program where the call stands
ReparseTextAs(Texts, label) ==
    /\ pc = "encoded"
    /\ \E t \in Texts :
          \E r \in {FromStringR(t, wrapv)} :
              /\ pc' \in (IF r.ub = {} THEN {label} ELSE {"fault"})
              /\ reparsed' = r.json
              /\ text' = t
    /\ UNCHANGED <<wrapv, frames, json, outs, nops>>
    /\ UNCHANGED memory

Mutated(newJson) ==
    /\ json' = newJson
    /\ outs' = <<>>
    /\ nops' = nops + 1
    /\ pc' = "built"
    /\ UNCHANGED <<wrapv, frames, text, reparsed>>
    /\ UNCHANGED memory

\* positions given to insert and remove: the front, the second place, beyond the end
IndexSet == {0, 1, 9}

CanMutate == pc \in {"built", "encoded"} /\ nops < MaxOps

\* json.add(v); v may be json itself
Add(Values) ==
    /\ CanMutate
    /\ \E v \in Values \cup {json} : Mutated(add(json, v))

\* json.insert(v, index)
Insert(Values) ==
    /\ CanMutate
    /\ \E v \in Values \cup {json}, index \in IndexSet : Mutated(insert(json, v, index))

\* json.remove(index)
RemoveAt ==
    /\ CanMutate
    /\ \E index \in IndexSet : Mutated(removeAt(json, index))

\* json.set(key, v)
Set(Keys, Values) ==
    /\ CanMutate
    /\ \E key \in Keys, v \in Values \cup {json} : Mutated(set(json, key, v))

\* json.remove(key)
RemoveKey(Keys) ==
    /\ CanMutate
    /\ \E key \in Keys : Mutated(removeKey(json, key))

(***************************************************************************)
(* The operations on objects in memory.  An operation is called on the     *)
(* object a variable holds or on the object a pointer from operator[]      *)
(* leads to; a handle says which.  The argument of add, insert and set is  *)
(* a temporary built from a literal, or the object itself.                 *)
(***************************************************************************)
Variables == {"a", "b"}

\* the object the handle leads to from the object id (0: a null pointer)
Deref(id, handle) ==
    IF handle.kind = "self" THEN id
    ELSE IF handle.kind = "index" THEN IndexByPosition(heap, id, handle.index)
    ELSE IndexByKey(heap, id, handle.key)

\* the values of a and b
Trees == [r \in Variables |-> IF roots[r] = 0 THEN Impl ELSE TreeOf(heap, roots[r])]

\* the arguments: memory with the argument in it, where it is, and whether
\* it is the object the operation is called on
Arguments(Values, this) ==
    {[heap |-> Alloc(heap, v).heap, id |-> Alloc(heap, v).id, self |-> FALSE] : v \in Values}
        \cup {[heap |-> heap, id |-> this, self |-> TRUE]}

\* the state after an operation on the object this, reached from variable r
Operated(newHeap, newOp, r, this) ==
    /\ heap' = newHeap
    /\ op' = [newOp EXCEPT !.root = r, !.target = this,
                           !.targetBefore = TreeOf(heap, this), !.before = Trees]
    /\ nops' = nops + 1
    /\ UNCHANGED <<wrapv, frames, roots>>
    /\ UNCHANGED single

CanOperate(maxOps) == nops < maxOps

\* JSON a(v): a value built in a variable that holds none yet
HeapNew(Rs, Values) ==
    /\ \E r \in Rs, v \in Values :
          /\ roots[r] = 0
          /\ LET n == Alloc(heap, v)
             IN  /\ heap' = n.heap
                 /\ roots' = [roots EXCEPT ![r] = n.id]
                 /\ op' = [NoOp EXCEPT !.name = "new", !.root = r, !.target = n.id,
                                       !.before = Trees]
    /\ UNCHANGED <<wrapv, frames, nops>>
    /\ UNCHANGED single

\* r = JSON::FromString(t), for a text on which the call returns
HeapParse(Rs, Texts) ==
    /\ \E r \in Rs, t \in Texts :
          /\ roots[r] = 0
          /\ \E parsed \in {FromStringR(t, wrapv)} :
                /\ parsed.ub = {}
                /\ \E n \in {Alloc(heap, parsed.json)} :
                      /\ heap' = n.heap
                      /\ roots' = [roots EXCEPT ![r] = n.id]
                      /\ op' = [NoOp EXCEPT !.name = "parse", !.root = r,
                                            !.target = n.id, !.before = Trees]
    /\ UNCHANGED <<wrapv, frames, nops>>
    /\ UNCHANGED single

\* JSON b(a), or b = a when b holds a value already
HeapCopy(maxOps) ==
    /\ \E r \in Variables, from \in Variables :
          /\ r # from
          /\ roots[from] # 0
          /\ roots[r] = 0 \/ CanOperate(maxOps)
          /\ LET c == StoreCopy(heap, roots[from])
             IN  /\ heap' = c.heap
                 /\ roots' = [roots EXCEPT ![r] = c.id]
                 /\ op' = [NoOp EXCEPT !.name = "copy", !.root = r, !.target = c.id,
                                       !.arg = TreeOf(heap, roots[from]),
                                       !.before = Trees]
          /\ nops' = IF roots[r] = 0 THEN nops ELSE nops + 1
    /\ UNCHANGED <<wrapv, frames>>
    /\ UNCHANGED single

\* add(v) on an object of one of the given types
HeapAddOn(Types, Handles, Values, maxOps) ==
    /\ CanOperate(maxOps)
    /\ \E r \in Variables, handle \in Handles :
          /\ roots[r] # 0
          /\ LET this == Deref(roots[r], handle)
             IN  /\ this # 0
                 /\ heap[this].type \in Types
                 /\ \E v \in Arguments(Values, this) :
                       Operated(addH(v.heap, this, v.id),
                                [NoOp EXCEPT !.name = "add", !.arg = TreeOf(v.heap, v.id),
                                             !.self = v.self],
                                r, this)

HeapAdd(Handles, Values, maxOps) == HeapAddOn({"Array"}, Handles, Values, maxOps)

\* insert(v, index) on an object of one of the given types
HeapInsertOn(Types, Handles, Values, Indexes, maxOps) ==
    /\ CanOperate(maxOps)
    /\ \E r \in Variables, handle \in Handles :
          /\ roots[r] # 0
          /\ LET this == Deref(roots[r], handle)
             IN  /\ this # 0
                 /\ heap[this].type \in Types
                 /\ \E v \in Arguments(Values, this), index \in Indexes :
                       Operated(insertH(v.heap, this, v.id, index),
                                [NoOp EXCEPT !.name = "insert",
                                             !.arg = TreeOf(v.heap, v.id),
                                             !.self = v.self, !.index = index],
                                r, this)

HeapInsert(Handles, Values, Indexes, maxOps) == HeapInsertOn({"Array"}, Handles, Values, Indexes, maxOps)

\* remove(index) on an object of one of the given types
HeapRemoveAtOn(Types, Handles, Indexes, maxOps) ==
    /\ CanOperate(maxOps)
    /\ \E r \in Variables, handle \in Handles :
          /\ roots[r] # 0
          /\ LET this == Deref(roots[r], handle)
             IN  /\ this # 0
                 /\ heap[this].type \in Types
                 /\ \E index \in Indexes :
                       Operated(removeAtH(heap, this, index),
                                [NoOp EXCEPT !.name = "removeAt", !.index = index],
                                r, this)

HeapRemoveAt(Handles, Indexes, maxOps) == HeapRemoveAtOn({"Array"}, Handles, Indexes, maxOps)

\* set(key, v) on an object of one of the given types
HeapSetOn(Types, Handles, Keys, Values, maxOps) ==
    /\ CanOperate(maxOps)
    /\ \E r \in Variables, handle \in Handles :
          /\ roots[r] # 0
          /\ LET this == Deref(roots[r], handle)
             IN  /\ this # 0
                 /\ heap[this].type \in Types
                 /\ \E v \in Arguments(Values, this), key \in Keys :
                       Operated(setH(v.heap, this, key, v.id),
                                [NoOp EXCEPT !.name = "set", !.arg = TreeOf(v.heap, v.id),
                                             !.self = v.self, !.key = key],
                                r, this)

HeapSet(Handles, Keys, Values, maxOps) == HeapSetOn({"Object"}, Handles, Keys, Values, maxOps)

\* remove(key) on an object of one of the given types
HeapRemoveKeyOn(Types, Handles, Keys, maxOps) ==
    /\ CanOperate(maxOps)
    /\ \E r \in Variables, handle \in Handles :
          /\ roots[r] # 0
          /\ LET this == Deref(roots[r], handle)
             IN  /\ this # 0
                 /\ heap[this].type \in Types
                 /\ \E key \in Keys :
                       Operated(removeKeyH(heap, this, key),
                                [NoOp EXCEPT !.name = "removeKey", !.key = key],
                                r, this)

HeapRemoveKey(Handles, Keys, maxOps) == HeapRemoveKeyOn({"Object"}, Handles, Keys, maxOps)

\* ToString(options) on the object of a variable
HeapEncode(Options, maxOps) ==
    /\ CanOperate(maxOps)
    /\ \E r \in Variables, options \in Options :
          /\ roots[r] # 0
          /\ LET e == ToStringH(heap, roots[r], options)
             IN  Operated(e.heap, [NoOp EXCEPT !.name = "encode", !.options = options,
                                               !.out = e.s],
                          r, roots[r])

\* what the accessors return on the object this: getType, getSize, has and
\* operator[] for the given keys and int positions, and the four coercions
Reads(this, Keys, Indexes) ==
    LET value == TreeOf(heap, this)
    IN  {[type |-> value.type,
          size |-> getSize(value),
          has |-> [key \in Keys |-> has(value, key)],
          atKey |-> [key \in Keys |-> IndexByKey(heap, this, key)],
          atIndex |-> [index \in Indexes |-> IndexByInt(heap, this, index)],
          asBool |-> operator_bool(value),
          asString |-> operator_string(value),
          asInt |-> asInt,
          asDouble |-> operator_double(value)] : asInt \in operator_int(value)}

\* the accessors called on an object; nothing in memory changes
HeapRead(Handles, Keys, Indexes) ==
    /\ \E r \in Variables, handle \in Handles :
          /\ roots[r] # 0
          /\ LET this == Deref(roots[r], handle)
             IN  /\ this # 0
                 /\ \E got \in Reads(this, Keys, Indexes) :
                       op' = [NoOp EXCEPT !.name = "read", !.root = r, !.target = this,
                                          !.got = got,
                                          !.targetBefore = TreeOf(heap, this),
                                          !.before = Trees]
    /\ UNCHANGED <<wrapv, frames, nops, heap, roots>>
    /\ UNCHANGED single

(***************************************************************************)
(* The inputs the specifications draw from.                                *)
(***************************************************************************)
\* - + 0 1 5 . e E X
NumAlphabet == {45, 43, 48, 49, 53, 46, 101, 69, 88}

NumTexts == SeqsUpTo(NumAlphabet, MaxNumLen)

\* literals around the 32-bit limits: [-] prefix suffix
IntPrefixes ==
    { <<50, 49, 52, 55, 52, 56, 51, 54, 52>>,   \* 214748364
      <<50, 49, 52, 55, 52, 56, 51, 54>>,       \* 21474836
      <<53, 49, 49, 49, 49, 49, 49, 49, 49>>,   \* 511111111
      <<57, 57, 57, 57, 57, 57, 57, 57, 57>>,   \* 999999999
      <<49>> }                                  \* 1

\* 0 1 7 8
SuffixDigits == {48, 49, 55, 56}

IntTexts ==
    {sign \o prefix \o suffix :
        sign \in {<<>>, <<45>>}, prefix \in IntPrefixes,
        suffix \in SeqsUpTo(SuffixDigits, MaxSuffix)}

NumInputs == NumTexts \cup IntTexts

\* number texts put together from a sign, an integral part, a fraction part
\* and an exponent part, each present or absent, well formed or dangling
FloatSigns == {<<>>, <<45>>}

\* nothing, 0, 5, 10
FloatIntegrals == {<<>>, <<48>>, <<53>>, <<49, 48>>}

\* nothing, a lone point, .5, .05, .5X
FloatFractions == {<<>>, <<46>>, <<46, 53>>, <<46, 48, 53>>, <<46, 53, 88>>}

\* nothing, e, e5, E+5, e-10, e+, E-, e+-5
FloatExponents ==
    {<<>>, <<101>>, <<101, 53>>, <<69, 43, 53>>, <<101, 45, 49, 48>>,
     <<101, 43>>, <<69, 45>>, <<101, 43, 45, 53>>}

FloatTexts ==
    {sign \o integral \o fraction \o exponent :
        sign \in FloatSigns, integral \in FloatIntegrals,
        fraction \in FloatFractions, exponent \in FloatExponents}

FloatInputs == NumTexts \cup FloatTexts

\* pieces of string interiors: plain characters, well-formed and malformed escapes
StringTokens ==
    { <<97>>,                           \* a
      <<92>>,                           \* a lone backslash
      <<34>>,                           \* a quote
      <<32>>,                           \* a space
      <<233>>,                          \* U+00E9
      <<128169>>,                       \* U+1F4A9
      <<92, 110>>,                      \* \n
      <<92, 120>>,                      \* \x
      <<92, 117, 48, 48, 52, 49>>,      \* the escape of U+0041
      <<92, 117, 48, 48, 101, 57>>,     \* the escape of U+00E9
      <<92, 117, 68, 56, 51, 68>>,      \* the escape of the high surrogate D83D
      <<92, 117, 68, 67, 65, 57>>,      \* the escape of the low surrogate DCA9
      <<92, 117, 49, 50>>,              \* a u escape cut after two digits
      <<92, 117, 49, 50, 51, 88>> }     \* a u escape whose fourth digit is X

StringInteriors == {Concat(ts) : ts \in SeqsUpTo(StringTokens, MaxTokens)}

\* quoted texts, bare or with whitespace around them
StringTexts ==
    {pad[1] \o <<34>> \o interior \o <<34>> \o pad[2] :
        pad \in {<<<<>>, <<>>>>, <<<<32, 10>>, <<9>>>>}, interior \in StringInteriors}

\* pieces of container texts
ContTokens ==
    { <<91>>, <<93>>, <<123>>, <<125>>, <<44>>, <<58>>, <<32>>,
      <<49>>, <<34, 97, 34>> }

ContTexts ==
    {open \o Concat(ts) \o close :
        open \in {<<91>>, <<123>>}, close \in {<<93>>, <<125>>},
        ts \in SeqsUpTo(ContTokens, MaxContTokens)}

\* quoted texts with at most one piece inside
ShortStringTexts == {<<34>> \o t \o <<34>> : t \in StringTokens \cup {<<>>}}

CacheTexts == ContTexts \cup ShortStringTexts

OptionSet ==
    { DefaultOptions,
      [DefaultOptions EXCEPT !.deleteCache = TRUE],
      [DefaultOptions EXCEPT !.escapeNonAscii = TRUE],
      [DefaultOptions EXCEPT !.prettyPrint = TRUE] }

EscapingOptions == {[DefaultOptions EXCEPT !.escapeNonAscii = TRUE]}

LeafValues ==
    { JSONNull, JSONBool(TRUE), JSONBool(FALSE),
      JSONInt(0), JSONInt(7), JSONInt(10), JSONInt(-26),
      JSONInt(2147483647), JSONInt(INT_MIN),
      JSONDouble([kind |-> "finite", neg |-> FALSE, mant |-> 15, exp |-> -1]),
      JSONString(<<>>), JSONString(<<97, 34, 92>>), JSONString(<<233, 10, 128169>>) }

BuildValues == LeafValues \cup {JSONOfType("Array"), JSONOfType("Object")}

\* the values handed to add, insert and set (besides the value itself)
ArgValues == {JSONNull, JSONInt(10), JSONString(<<97, 34, 92>>), JSONOfType("Array")}

\* the keys a and "
KeySet == {<<97>>, <<34>>}

\* codepoints of the supplementary planes: the ends of the range, the places
\* where the low ten bits roll over, and a spread of values in between
SupplementaryCodepoints ==
    {65536, 66559, 66560, 128169, 1113088, 1114111}
        \cup {65536 + ((k * 26111) % 1048576) : k \in 0..MaxCpSamples}

SupplementaryStrings == {JSONString(<<cp>>) : cp \in SupplementaryCodepoints}

\* pieces of array and object interiors: whole entries, separators, a text
\* that is no value, nested containers, and pieces that leave a string, an
\* array or an object open
EntryTokens ==
    { <<34, 97, 34, 58, 49>>,               \* "a":1
      <<34, 98, 34, 58>>,                   \* "b":
      <<49, 58, 50>>,                       \* 1:2
      <<44>>,                               \* ,
      <<32>>,                               \* a space
      <<88>>,                               \* X
      <<91, 49, 44, 50, 93>>,               \* [1,2]
      <<123, 34, 97, 34, 58, 49, 125>>,     \* {"a":1}
      <<91, 50, 125>>,                      \* [2}
      <<34, 98>>,                           \* "b
      <<110, 117, 108, 108, 58>> }          \* null:

EntryTexts ==
    {pair[1] \o Concat(ts) \o pair[2] :
        pair \in {<<<<91>>, <<93>>>>, <<<<123>>, <<125>>>>},
        ts \in SeqsUpTo(EntryTokens, MaxEntryTokens)}

\* texts of one double quote, bare and with whitespace around it
LoneQuoteTexts == {<<34>>, <<32, 34, 10>>}

ParseTexts == ContTexts \cup EntryTexts \cup ShortStringTexts \cup LoneQuoteTexts

\* an Array holding copies of the given values, built by add
RECURSIVE ArrayOf(_)
ArrayOf(values) ==
    IF values = <<>> THEN JSONOfType("Array")
    ELSE add(ArrayOf(SubSeq(values, 1, Len(values) - 1)), values[Len(values)])

\* an Object holding copies of the given [key, value] entries, built by set
RECURSIVE ObjectOf(_)
ObjectOf(entries) ==
    IF entries = <<>> THEN JSONOfType("Object")
    ELSE LET last == entries[Len(entries)]
         IN  set(ObjectOf(SubSeq(entries, 1, Len(entries) - 1)), last.key, last.value)

\* what the containers of TreeValues hold: scalars and empty containers
TreeLeaves ==
    { JSONInt(7), JSONString(<<97, 34, 92>>), JSONOfType("Array"), JSONOfType("Object") }

\* containers of at most MaxWidth children, and those holding one of these
FlatTrees ==
    {ArrayOf(vs) : vs \in SeqsUpTo(TreeLeaves, MaxWidth)}
        \cup {ObjectOf([i \in 1..Len(vs) |-> [key |-> <<96 + i>>, value |-> vs[i]]]) :
                  vs \in SeqsUpTo(TreeLeaves, MaxWidth)}

TreeValues ==
    FlatTrees
        \cup {ArrayOf(<<JSONInt(7), t>>) : t \in FlatTrees}
        \cup {ObjectOf(<<[key |-> <<97>>, value |-> t]>>) : t \in FlatTrees}

\* the values the runs on objects in memory start from:
\* [26,50], [[1],2] and {"a":[1],"b":2}
HeapSeeds ==
    { ArrayOf(<<JSONInt(26), JSONInt(50)>>),
      ArrayOf(<<ArrayOf(<<JSONInt(1)>>), JSONInt(2)>>),
      ObjectOf(<<[key |-> <<97>>, value |-> ArrayOf(<<JSONInt(1)>>)],
                 [key |-> <<98>>, value |-> JSONInt(2)]>>) }

\* the literals handed to add, insert and set there
HeapArgs == {JSONInt(7)}

\* the positions handed to insert and remove there: the second place (the
\* end of an array of one element) and beyond the end
HeapIndexSet == {1, 9}

\* the object itself, its first element, and the value under the key a
HandleSet ==
    { [kind |-> "self", index |-> 0, key |-> <<>>],
      [kind |-> "index", index |-> 0, key |-> <<>>],
      [kind |-> "key", index |-> 0, key |-> <<97>>] }

\* the values compared with one another: scalars, arrays that differ in
\* order and in length, objects that differ in a value and in a key
EqValues ==
    { JSONNull, JSONBool(TRUE), JSONInt(1), JSONString(<<49>>),
      JSONDouble([kind |-> "finite", neg |-> FALSE, mant |-> 1, exp |-> 0]),
      JSONOfType("Array"), JSONOfType("Object"),
      ArrayOf(<<JSONInt(1), JSONInt(2)>>),
      ArrayOf(<<JSONInt(2), JSONInt(1)>>),
      ArrayOf(<<JSONInt(1)>>),
      ObjectOf(<<[key |-> <<98>>, value |-> JSONInt(2)],
                 [key |-> <<97>>, value |-> JSONInt(1)]>>),
      ObjectOf(<<[key |-> <<97>>, value |-> JSONInt(2)],
                 [key |-> <<98>>, value |-> JSONInt(2)]>>),
      ObjectOf(<<[key |-> <<97>>, value |-> JSONInt(1)],
                 [key |-> <<99>>, value |-> JSONInt(2)]>>),
      ObjectOf(<<[key |-> <<97>>, value |-> JSONInt(1)]>>) }

\* the texts parsed for the comparison
EqTexts ==
    { <<123, 34, 97, 34, 58, 49, 44, 34, 98, 34, 58, 50, 125>>,       \* {"a":1,"b":2}
      <<123, 34, 98, 34, 58, 50, 44, 34, 97, 34, 58, 49, 125>>,       \* {"b":2,"a":1}
      <<91, 49, 44, 50, 93>>,                                         \* [1,2]
      <<91, 50, 44, 49, 93>>,                                         \* [2,1]
      <<91, 123, 34, 98, 34, 58, 50, 44, 34, 97, 34, 58, 49, 125, 93>>, \* [{"b":2,"a":1}]
      <<91, 123, 34, 97, 34, 58, 49, 44, 34, 98, 34, 58, 50, 125, 93>>, \* [{"a":1,"b":2}]
      <<49>>,                                                         \* 1
      <<34, 49, 34>>,                                                 \* "1"
      <<88>>,                                                         \* X
      <<91, 49>> }                                                    \* [1

\* the containers changed directly: those above and the two empty ones
DirectSeeds == HeapSeeds \cup {JSONOfType("Array"), JSONOfType("Object")}

\* the containers whose children are changed: those above and [{"a":1}]
ChildSeeds ==
    HeapSeeds \cup {ArrayOf(<<ObjectOf(<<[key |-> <<97>>, value |-> JSONInt(1)]>>)>>)}

\* the object of the variable itself
SelfHandle == {[kind |-> "self", index |-> 0, key |-> <<>>]}

\* its first element and the value under its key a
ChildHandleSet ==
    { [kind |-> "index", index |-> 0, key |-> <<>>],
      [kind |-> "key", index |-> 0, key |-> <<97>>] }

\* the values the accessors are called on: one of each type, doubles with
\* and without a fraction, of either sign, inside and outside the range
\* of int, and containers with and without children
ReadValues ==
    { Impl, JSONNull, JSONBool(TRUE), JSONInt(7), JSONInt(-26),
      JSONDouble([kind |-> "finite", neg |-> FALSE, mant |-> 15, exp |-> -1]),
      JSONDouble([kind |-> "finite", neg |-> TRUE, mant |-> 27, exp |-> -1]),
      JSONDouble([kind |-> "finite", neg |-> FALSE, mant |-> 2, exp |-> 9]),
      JSONDouble([kind |-> "finite", neg |-> FALSE, mant |-> 1, exp |-> 10]),
      JSONString(<<97, 233>>),
      JSONOfType("Array"),
      ArrayOf(<<JSONInt(26), JSONInt(50)>>),
      ObjectOf(<<[key |-> <<97>>, value |-> ArrayOf(<<JSONInt(1)>>)],
                 [key |-> <<98>>, value |-> JSONInt(2)]>>) }

\* the values held in b to be compared with them
PeerValues == {ArrayOf(<<JSONInt(26), JSONInt(50)>>), JSONString(<<97, 233>>)}

\* and the texts parsed into b: [26, 50] and "a\u00e9"
PeerTexts ==
    { <<91, 50, 54, 44, 32, 53, 48, 93>>,
      <<34, 97, 92, 117, 48, 48, 101, 57, 34>> }

\* the keys asked for: a and c
ReadKeySet == {<<97>>, <<99>>}

\* the int positions asked for: negative, the first, and the third
ReadIndexSet == {-1, 0, 2}

\* the objects the accessors are called on: the object of the variable and
\* its first element
ReadHandleSet ==
    { [kind |-> "self", index |-> 0, key |-> <<>>],
      [kind |-> "index", index |-> 0, key |-> <<>>] }

\* the codepoints the sampled strings are made of: a line feed, another
\* control character, the quote, the comma, the solidus, a letter that is a
\* hex digit, the backslash, the letter u, and codepoints of two, three and
\* four UTF-8 bytes
StringCodepoints == {10, 31, 34, 44, 47, 65, 92, 117, 233, 43981, 128169}

\* one codepoint or more of every kind escape tells apart, with the ends of
\* the ranges
EscapeCodepoints ==
    {0, 8, 9, 10, 11, 12, 13, 31, 32, 34, 47, 92, 126, 127, 128, 255, 4095,
     43981, 55295, 57344, 65535, 65536, 128169, 1114111}

SampledStrings ==
    {JSONString(s) : s \in SeqsUpTo(StringCodepoints, MaxStringLen)}
        \cup {JSONString(<<cp>>) : cp \in EscapeCodepoints}

\* the two escape settings
EscapeSettings == {DefaultOptions, [DefaultOptions EXCEPT !.escapeNonAscii = TRUE]}

\* the string the last ToString returned
LastEncoding == IF outs = <<>> THEN <<>> ELSE outs[Len(outs)].s

\* the text s with the hex digits of its u escapes in lower case
LowerCase(c) == IF c >= 65 /\ c <= 70 THEN c + 32 ELSE c

RECURSIVE LowerCaseEscapesFrom(_, _)
LowerCaseEscapesFrom(s, i) ==
    IF i > Len(s) THEN <<>>
    ELSE IF s[i] # 92 \/ i = Len(s) THEN <<s[i]>> \o LowerCaseEscapesFrom(s, i + 1)
    ELSE IF s[i + 1] = 117 /\ i + 5 <= Len(s)
    THEN <<92, 117>> \o [k \in 1..4 |-> LowerCase(s[i + 1 + k])]
             \o LowerCaseEscapesFrom(s, i + 6)
    ELSE <<s[i], s[i + 1]>> \o LowerCaseEscapesFrom(s, i + 2)

LowerCaseEscapes(s) == LowerCaseEscapesFrom(s, 1)

\* the encoding e as the only element of an array, as the only key of an
\* object and as the only value of an object
AsElement(e) == <<91>> \o e \o <<93>>

AsKey(e) == <<123>> \o e \o <<58, 49, 125>>

AsValue(e) == <<123, 34, 107, 34, 58>> \o e \o <<125>>

ContainerTextsOf(e) == {AsElement(e), AsKey(e), AsValue(e)}

\* texts to put whitespace around: nothing, a space, numbers, literals, a
\* text that is no value, two numbers with a space between them, strings
\* without and with whitespace inside, and containers
TrimBodies ==
    { <<>>,
      <<32>>,
      <<49>>,                                       \* 1
      <<45, 49, 53>>,                               \* -15
      <<49, 46, 53>>,                               \* 1.5
      <<116, 114, 117, 101>>,                       \* true
      <<110, 117, 108, 108>>,                       \* null
      <<88>>,                                       \* X
      <<49, 32, 53>>,                               \* 1 5
      <<34, 97, 34>>,                               \* "a"
      <<34, 32, 97, 9, 34>>,                        \* " a<TAB>"
      <<91, 93>>,                                   \* []
      <<123, 125>>,                                 \* {}
      <<91, 49, 44, 53, 93>>,                       \* [1,5]
      <<91, 91, 49, 93, 44, 34, 97, 34, 93>>,       \* [[1],"a"]
      <<91, 88, 93>>,                               \* [X]
      <<123, 34, 97, 34, 58, 49, 44, 34, 98, 34, 58, 91, 53, 93, 125>>,  \* {"a":1,"b":[5]}
      <<91, 123, 34, 97, 34, 58, 110, 117, 108, 108, 125, 93>> }         \* [{"a":null}]

\* w1 + t + w2 for every w1 and w2 of whitespace
\* space, tab, CR, LF
SpaceCodepoints == {32, 9, 13, 10}

WhitespaceStrings == SeqsUpTo(SpaceCodepoints, MaxPad)

PaddedTextsOf(t) == {w1 \o t \o w2 : w1 \in WhitespaceStrings, w2 \in WhitespaceStrings}

\* codepoints that are no whitespace for FromString: NUL, the vertical tab,
\* the form feed, the no-break space, the line separator, the byte order mark
ForeignCodepoints == {0, 11, 12, 160, 8232, 65279}

\* t with such a codepoint before or after it, next to t or beyond a space
FramedTextsOf(t) ==
    UNION {{<<c>> \o t, t \o <<c>>, <<c, 32>> \o t, t \o <<32, c>>} : c \in ForeignCodepoints}

\* t with the whitespace w around every comma and colon, after every opening
\* and before every closing bracket of a container that is not empty (the
\* bodies have no such character inside a string)
SpacedAt(t, i, w) ==
    IF t[i] = 44 \/ t[i] = 58 THEN w \o <<t[i]>> \o w
    ELSE IF (t[i] = 91 /\ t[i + 1] # 93) \/ (t[i] = 123 /\ t[i + 1] # 125)
    THEN <<t[i]>> \o w
    ELSE IF (t[i] = 93 /\ t[i - 1] # 91) \/ (t[i] = 125 /\ t[i - 1] # 123)
    THEN w \o <<t[i]>>
    ELSE <<t[i]>>

Spaced(t, w) == Concat([i \in 1..Len(t) |-> SpacedAt(t, i, w)])

IsContainerText(t) == t # <<>> /\ (t[1] = 91 \/ t[1] = 123)

SpacedTextsOf(t) ==
    IF IsContainerText(t) THEN {Spaced(t, w) : w \in WhitespaceStrings \ {<<>>}} ELSE {}

\* the two encodings compared: compact and pretty, both computed anew
CompactAnew == [DefaultOptions EXCEPT !.deleteCache = TRUE]

PrettyAnew == [DefaultOptions EXCEPT !.deleteCache = TRUE, !.prettyPrint = TRUE]

\* The input sets and lookup tables are values fixed before the first step.
TablesReady ==
    /\ Cardinality(WHITESPACES) > 0
    /\ Cardinality(FLOAT_INDICATORS) > 0
    /\ Cardinality(DOMAIN SPECIAL_ESCAPE_DECODINGS) > 0
    /\ Cardinality(DOMAIN SPECIAL_ESCAPE_ENCODINGS) > 0

TextsReady ==
    /\ Cardinality(NumInputs) > 0
    /\ Cardinality(FloatInputs) > 0
    /\ Cardinality(TrimBodies) > 0
    /\ Cardinality(WhitespaceStrings) > 0
    /\ Cardinality(ForeignCodepoints) > 0
    /\ Cardinality(StringTexts) > 0
    /\ Cardinality(CacheTexts) > 0
    /\ Cardinality(ParseTexts) > 0

ValuesReady ==
    /\ Cardinality(OptionSet) > 0
    /\ Cardinality(EscapingOptions) > 0
    /\ Cardinality(BuildValues) > 0
    /\ Cardinality(ArgValues) > 0
    /\ Cardinality(KeySet) > 0
    /\ Cardinality(IndexSet) > 0
    /\ Cardinality(SupplementaryStrings) > 0
    /\ Cardinality(TreeValues) > 0
    /\ \A v \in TreeValues \cup HeapSeeds \cup EqValues : copyFrom(v) = v
    /\ \A v \in ReadValues \cup PeerValues : copyFrom(v) = v
    /\ Cardinality(PeerTexts) > 0
    /\ Cardinality(ReadKeySet) > 0
    /\ Cardinality(ReadIndexSet) > 0
    /\ Cardinality(ReadHandleSet) > 0
    /\ Cardinality(UndefinedIntOutcomes) > 0
    /\ Cardinality(Type) > 0
    /\ \A v \in DirectSeeds \cup ChildSeeds : copyFrom(v) = v
    /\ Cardinality(SampledStrings) > 0
    /\ Cardinality(EscapeSettings) > 0
    /\ Cardinality(SelfHandle) > 0
    /\ Cardinality(ChildHandleSet) > 0
    /\ Cardinality(HeapArgs) > 0
    /\ Cardinality(HandleSet) > 0
    /\ Cardinality(HeapIndexSet) > 0
    /\ Cardinality(EqTexts) > 0
    /\ Cardinality(Variables) > 0

InputsReady == TablesReady /\ TextsReady /\ ValuesReady

(***************************************************************************)
(* Spec: a value built through the programmatic surface (constructors and  *)
(* mutators), encoded, and its encoding parsed again.                      *)
(***************************************************************************)
Init ==
    /\ InputsReady
    /\ wrapv \in BOOLEAN
    /\ text = <<>>
    /\ Start

ConstructValue == Construct(BuildValues)

AddValue == Add(ArgValues)

InsertValue == Insert(ArgValues)

SetValue == Set(KeySet, ArgValues)

RemoveKeyValue == RemoveKey(KeySet)

EncodeValue == Encode(OptionSet, MaxEncodes)

Next ==
    \/ ConstructValue
    \/ AddValue
    \/ InsertValue
    \/ RemoveAt
    \/ SetValue
    \/ RemoveKeyValue
    \/ EncodeValue
    \/ Reparse

Spec == Init /\ [][Next]_vars

(***************************************************************************)
(* SpecNum: FromString on a number-like text, then one default ToString.   *)
(***************************************************************************)
InitNum ==
    /\ InputsReady
    /\ wrapv \in BOOLEAN
    /\ text \in NumInputs
    /\ Start

EncodeNum == Encode({DefaultOptions}, 1)

NextNum == Parse \/ EncodeNum

SpecNum == InitNum /\ [][NextNum]_vars

(***************************************************************************)
(* SpecFloat: FromString on a number-like text, short or put together from *)
(* the parts of the number grammar, then one default ToString.  No text    *)
(* here overflows an int, so the two builds agree on all of them.          *)
(***************************************************************************)
InitFloat ==
    /\ InputsReady
    /\ wrapv = TRUE
    /\ text \in FloatInputs
    /\ Start

NextFloat == Parse \/ EncodeNum

SpecFloat == InitFloat /\ [][NextFloat]_vars

(***************************************************************************)
(* SpecTrim: FromString on a text, one default ToString of the result, and *)
(* then FromString on the same text with whitespace around it, with a      *)
(* codepoint that is no whitespace before or after it, or with whitespace  *)
(* around the spans inside it.                                             *)
(***************************************************************************)
InitTrim ==
    /\ InputsReady
    /\ wrapv = TRUE
    /\ text \in TrimBodies
    /\ Start

\* the texts FromString is called on next, by the way they are made from t
TrimTextsOf(t, label) ==
    IF label = "padded" THEN PaddedTextsOf(t)
    ELSE IF label = "framed" THEN FramedTextsOf(t)
    ELSE SpacedTextsOf(t)

ReparseTrimmed ==
    /\ pc = "encoded"
    /\ \E label \in {"padded", "framed", "spaced"} :
          \E Texts \in {TrimTextsOf(text, label)} : ReparseTextAs(Texts, label)

NextTrim == Parse \/ EncodeNum \/ ReparseTrimmed

SpecTrim == InitTrim /\ [][NextTrim]_vars

(***************************************************************************)
(* SpecText: FromString on a quoted text, then ToString calls.  No text    *)
(* here holds a number, so the two builds agree on all of them.            *)
(***************************************************************************)
InitText ==
    /\ InputsReady
    /\ wrapv = TRUE
    /\ text \in StringTexts
    /\ Start

EncodeText == Encode(OptionSet, MaxEncodes)

NextText == Parse \/ EncodeText

SpecText == InitText /\ [][NextText]_vars

(***************************************************************************)
(* SpecCache: FromString on a container text or a short quoted text, then  *)
(* up to MaxCalls ToString calls with any options.  The numbers in these   *)
(* texts have one digit, so the two builds agree on all of them.           *)
(***************************************************************************)
InitCache ==
    /\ InputsReady
    /\ wrapv = TRUE
    /\ text \in CacheTexts
    /\ Start

EncodeCache == Encode(OptionSet, MaxCalls)

NextCache == Parse \/ EncodeCache

SpecCache == InitCache /\ [][NextCache]_vars

(***************************************************************************)
(* SpecSurrogate: a String of one supplementary codepoint, encoded with    *)
(* escapeNonAscii, and the encoding parsed again.                          *)
(***************************************************************************)
ConstructSupplementary == Construct(SupplementaryStrings)

EncodeEscaped == Encode(EscapingOptions, 1)

NextSurrogate == ConstructSupplementary \/ EncodeEscaped \/ Reparse

SpecSurrogate == Init /\ [][NextSurrogate]_vars

(***************************************************************************)
(* SpecPretty: an Array or Object tree, encoded anew in the compact and    *)
(* then in the pretty layout, and the pretty text parsed again.            *)
(***************************************************************************)
ConstructTree == Construct(TreeValues)

EncodeCompact ==
    /\ outs = <<>>
    /\ Encode({CompactAnew}, 1)

EncodePretty ==
    /\ Len(outs) = 1
    /\ Encode({PrettyAnew}, 2)

NextPretty == ConstructTree \/ EncodeCompact \/ EncodePretty \/ Reparse

SpecPretty == Init /\ [][NextPretty]_vars

(***************************************************************************)
(* SpecParse: FromString on a container text, a short quoted text or a     *)
(* lone quote.  The numbers in these texts are far from the 32-bit limits, *)
(* so the two builds agree on all of them.                                 *)
(***************************************************************************)
InitParse ==
    /\ InputsReady
    /\ wrapv = TRUE
    /\ text \in ParseTexts
    /\ Start

NextParse == Parse

SpecParse == InitParse /\ [][NextParse]_vars

(***************************************************************************)
(* SpecHeap: a value built in the variable a, copied into b, and both      *)
(* changed and encoded through the variables and through pointers to       *)
(* their children.                                                         *)
(***************************************************************************)
InitHeap ==
    /\ TablesReady
    /\ ValuesReady
    /\ wrapv = TRUE
    /\ text = <<>>
    /\ Start

HeapNewValue == HeapNew({"a"}, HeapSeeds)

HeapCopyValue == HeapCopy(MaxHeapOps)

HeapAddValue == HeapAdd(HandleSet, HeapArgs, MaxHeapOps)

HeapInsertValue == HeapInsert(HandleSet, HeapArgs, HeapIndexSet, MaxHeapOps)

HeapRemoveAtValue == HeapRemoveAt(HandleSet, HeapIndexSet, MaxHeapOps)

HeapSetValue == HeapSet(HandleSet, KeySet, HeapArgs, MaxHeapOps)

HeapRemoveKeyValue == HeapRemoveKey(HandleSet, KeySet, MaxHeapOps)

HeapEncodeValue == HeapEncode({DefaultOptions}, MaxHeapOps)

NextHeap ==
    \/ HeapNewValue
    \/ HeapCopyValue
    \/ HeapAddValue
    \/ HeapInsertValue
    \/ HeapRemoveAtValue
    \/ HeapSetValue
    \/ HeapRemoveKeyValue
    \/ HeapEncodeValue

SpecHeap == InitHeap /\ [][NextHeap]_vars

(***************************************************************************)
(* SpecEq: two values, each built through the constructors and mutators or *)
(* returned by FromString, held in a and b to be compared.                 *)
(***************************************************************************)
HeapNewEither == HeapNew(Variables, EqValues)

HeapParseEither == HeapParse(Variables, EqTexts)

NextEq == HeapNewEither \/ HeapParseEither

SpecEq == InitHeap /\ [][NextEq]_vars

(***************************************************************************)
(* SpecSame: two values built through the constructors and set() calls in  *)
(* any order, each encoded anew, compact or pretty.                        *)
(***************************************************************************)
\* the doubles 0.0 and -0.0
Zero(neg) == JSONDouble([kind |-> "finite", neg |-> neg, mant |-> 0, exp |-> 0])

SameValues ==
    { JSONOfType("Object"), Zero(FALSE), Zero(TRUE),
      ObjectOf(<<[key |-> <<97>>, value |-> JSONInt(1)],
                 [key |-> <<66>>, value |-> Zero(FALSE)]>>) }

SameArgs == {JSONInt(1), Zero(FALSE)}

SameKeys == {<<97>>, <<66>>}

\* compact and pretty, with deleteCache
AnewOptions == {CompactAnew, PrettyAnew}

HeapNewSame == HeapNew(Variables, SameValues)

HeapSetSame == HeapSet(SelfHandle, SameKeys, SameArgs, MaxHeapOps + 1)

HeapEncodeSame == HeapEncode(AnewOptions, MaxHeapOps + 1)

InitSame ==
    /\ InitHeap
    /\ \A v \in SameValues \cup SameArgs : copyFrom(v) = v

NextSame == HeapNewSame \/ HeapSetSame \/ HeapEncodeSame

SpecSame == InitSame /\ [][NextSame]_vars

(***************************************************************************)
(* FromString step by step.  A frame is one call of FromString: the text   *)
(* it was given, the interior handed to parseAsArray or parseAsObject, the *)
(* offset of that loop, and where the loop stands:                         *)
(*   "head"    at the test of the while loop                               *)
(*   "element" before the scan for an element (parseAsArray)               *)
(*   "key"     before the scan for a key (parseAsObject)                   *)
(*   "value"   before the scan for the value of the key                    *)
(*   "call"    before the FromString call on the span just scanned         *)
(*   "await"   inside that call                                            *)
(*   "done"    at the return                                               *)
(* begun is the offset at the start of the iteration under way, span the   *)
(* span to call FromString on and calls what its result is taken for, role *)
(* what the caller takes the result of this call for, and result is the    *)
(* type of the value returned.                                             *)
(***************************************************************************)
\* which branch of FromString the text takes
CallKind(codepoints) ==
    LET firstNonWhitespaceChar == findFirstNotOf(codepoints, WHITESPACES, TRUE)
        lastNonWhitespaceChar == findFirstNotOf(codepoints, WHITESPACES, FALSE)
        remainingCodepoints == SubSeq(codepoints, firstNonWhitespaceChar + 1,
                                      lastNonWhitespaceChar)
        encodedUtf8 == Utf8Encode(remainingCodepoints)
        size == Len(encodedUtf8)
    IN  IF firstNonWhitespaceChar = Len(codepoints) \/ encodedUtf8 = <<>>
        THEN [kind |-> "leaf", interior |-> <<>>]
        ELSE IF encodedUtf8[1] = 123 /\ encodedUtf8[size] = 125
        THEN [kind |-> "object", interior |-> Interior(remainingCodepoints)]
        ELSE IF encodedUtf8[1] = 91 /\ encodedUtf8[size] = 93
        THEN [kind |-> "array", interior |-> Interior(remainingCodepoints)]
        ELSE [kind |-> "leaf", interior |-> <<>>]

\* the frame of a call FromString(codepoints)
NewFrame(codepoints, role) ==
    LET c == CallKind(codepoints)
        leaf == FromStringR(codepoints, wrapv)
    IN  [text |-> codepoints, kind |-> c.kind, interior |-> c.interior,
         offset |-> 0, begun |-> -1, role |-> role, encodedKey |-> <<>>,
         span |-> <<>>, calls |-> "none",
         stage |-> IF c.kind = "leaf" THEN "done" ELSE "head",
         result |-> IF c.kind = "leaf" THEN leaf.json.type ELSE "none",
         ub |-> IF c.kind = "leaf" THEN leaf.ub ELSE {}]

Top == frames[Len(frames)]

\* the frames with the innermost replaced
WithTop(frame) == [frames EXCEPT ![Len(frames)] = frame]

Scanning(stage) == pc = "scanning" /\ frames # <<>> /\ Top.stage = stage

ScanStep(newFrames) ==
    /\ frames' = newFrames
    /\ UNCHANGED <<wrapv, pc, json, text, outs, reparsed, nops>>
    /\ UNCHANGED memory

\* the scan has come back: the loop gives up on an empty span, and otherwise
\* calls FromString on the span, taking the result for what role says
AfterScan(pv, role) ==
    IF pv.encoded = <<>>
    THEN [Top EXCEPT !.stage = "done", !.result = "Invalid", !.offset = pv.offset]
    ELSE [Top EXCEPT !.stage = "call", !.offset = pv.offset, !.span = pv.encoded,
                     !.calls = role]

\* FromString is entered: on text, or on the span a loop has scanned
ScanCall ==
    /\ pc = "start" \/ Scanning("call")
    /\ pc' = "scanning"
    /\ \E codepoints \in {IF frames = <<>> THEN text ELSE Top.span} :
          \E callee \in {NewFrame(codepoints, IF frames = <<>> THEN "top" ELSE Top.calls)} :
             frames' = IF frames = <<>> THEN <<callee>>
                       ELSE Append(WithTop([Top EXCEPT !.stage = "await"]), callee)
    /\ UNCHANGED <<wrapv, json, text, outs, reparsed, nops>>
    /\ UNCHANGED memory

\* while (offset < codepoints.size())
ScanLoopTest ==
    /\ Scanning("head")
    /\ ScanStep(WithTop(
          IF Top.offset < Len(Top.interior)
          THEN [Top EXCEPT !.stage = IF Top.kind = "array" THEN "element" ELSE "key",
                           !.begun = Top.offset]
          ELSE [Top EXCEPT !.stage = "done",
                           !.result = IF Top.kind = "array" THEN "Array" ELSE "Object"]))

\* parseAsArray: the scan for an element
ScanElement ==
    /\ Scanning("element")
    /\ \E codepoints \in {Top.interior}, offset \in {Top.offset} :
          \E pv \in {parseValue(codepoints, offset, 44)} :
             ScanStep(WithTop(AfterScan(pv, "element")))

\* parseAsObject: the scan for a key
ScanKey ==
    /\ Scanning("key")
    /\ \E codepoints \in {Top.interior}, offset \in {Top.offset} :
          \E pk \in {parseValue(codepoints, offset, 58)} :
             ScanStep(WithTop([AfterScan(pk, "key") EXCEPT !.encodedKey = pk.encoded]))

\* parseAsObject: the scan for the value; back() on an empty span ends the
\* run or reads a codepoint that is no comma
ScanValue ==
    /\ Scanning("value")
    /\ \E codepoints \in {Top.interior}, offset \in {Top.offset} :
       \E pv \in {parseValue(codepoints, offset, 44)} :
          \E outcome \in ParseOutcomes(pv.ub) :
             /\ pc' = IF outcome = "fault" THEN "fault" ELSE pc
             /\ frames' =
                   IF outcome = "fault" THEN frames
                   ELSE IF ObjectValueScanFailed(Top.encodedKey, pv.encoded)
                   THEN WithTop([Top EXCEPT !.stage = "done", !.result = "Invalid",
                                           !.offset = pv.offset])
                   ELSE WithTop([Top EXCEPT !.stage = "call", !.offset = pv.offset,
                                           !.span = pv.encoded, !.calls = "value"])
             /\ UNCHANGED <<wrapv, json, text, outs, reparsed, nops>>
             /\ UNCHANGED memory

\* a call made from a loop returns to it
ScanReturn ==
    /\ Scanning("done")
    /\ Len(frames) > 1
    /\ \E outcome \in ParseOutcomes(Top.ub) :
          /\ pc' = IF outcome = "fault" THEN "fault" ELSE pc
          /\ frames' =
                IF outcome = "fault" THEN frames
                ELSE LET caller == frames[Len(frames) - 1]
                         callers == SubSeq(frames, 1, Len(frames) - 1)
                     IN  [callers EXCEPT ![Len(callers)] =
                            IF Top.role = "key"
                            THEN IF Top.result = "String"
                                 THEN [caller EXCEPT !.stage = "value"]
                                 ELSE [caller EXCEPT !.stage = "done",
                                                     !.result = "Invalid"]
                            ELSE [caller EXCEPT !.stage = "head"]]
          /\ UNCHANGED <<wrapv, json, text, outs, reparsed, nops>>
          /\ UNCHANGED memory

\* FromString(text) returns
ScanFinish ==
    /\ Scanning("done")
    /\ Len(frames) = 1
    /\ pc' \in ParseOutcomes(Top.ub)
    /\ UNCHANGED <<wrapv, frames, json, text, outs, reparsed, nops>>
    /\ UNCHANGED memory

(***************************************************************************)
(* SpecScan: FromString on a text, followed through its loops.             *)
(***************************************************************************)
\* the pieces of the texts walked:
\*   "a":1  "b":  a comma  [1,2]  1  [  a space  {"a":1}
ScanTokens ==
    { <<34, 97, 34, 58, 49>>, <<34, 98, 34, 58>>, <<44>>,
      <<91, 49, 44, 50, 93>>, <<49>>, <<91>>, <<32>>,
      <<123, 34, 97, 34, 58, 49, 125>> }

ScanTexts ==
    {pair[1] \o Concat(ts) \o pair[2] :
        pair \in {<<<<91>>, <<93>>>>, <<<<123>>, <<125>>>>},
        ts \in SeqsUpTo(ScanTokens, MaxEntryTokens)}

InitScan ==
    /\ TablesReady
    /\ Cardinality(ScanTexts) > 0
    /\ wrapv = TRUE
    /\ text \in ScanTexts
    /\ Start

NextScan ==
    \/ ScanCall
    \/ ScanLoopTest
    \/ ScanElement
    \/ ScanKey
    \/ ScanValue
    \/ ScanReturn
    \/ ScanFinish

SpecScan == InitScan /\ [][NextScan]_vars

(***************************************************************************)
(* SpecCopy: a value in a, returned by FromString or built and encoded,    *)
(* copied into b, and handed to add, insert and set on a container.        *)
(***************************************************************************)
\* x   [1, 2]   {"a" : 1}   1   "a"   1.0   "A"   [x]
CopyTexts ==
    { <<120>>,
      <<91, 49, 44, 32, 50, 93>>,
      <<123, 34, 97, 34, 32, 58, 32, 49, 125>>,
      <<49>>,
      <<34, 97, 34>>,
      <<49, 46, 48>>,
      <<34, 92, 117, 48, 48, 52, 49, 34>>,
      <<91, 120, 93>> }

CopyValues == {JSONInt(1), JSONString(<<97>>), ArrayOf(<<JSONInt(1), JSONInt(2)>>)}

CopyHolders == {JSONOfType("Array"), JSONOfType("Object")}

HeapParseSource == HeapParse({"a"}, CopyTexts)

HeapNewSource == HeapNew({"a"}, CopyValues)

HeapNewHolder == HeapNew({"b"}, CopyHolders)

HeapCopyEither == HeapCopy(MaxHeapOps)

HeapAddSource == HeapAdd(SelfHandle, {Trees.a}, MaxHeapOps)

HeapInsertSource == HeapInsert(SelfHandle, {Trees.a}, {0}, MaxHeapOps)

HeapSetSource == HeapSet(SelfHandle, {<<97>>}, {Trees.a}, MaxHeapOps)

HeapEncodeSource == HeapEncode({DefaultOptions}, MaxHeapOps)

InitCopy ==
    /\ TablesReady
    /\ Cardinality(CopyTexts) > 0
    /\ \A v \in CopyValues \cup CopyHolders : copyFrom(v) = v
    /\ wrapv = TRUE
    /\ text = <<>>
    /\ Start

NextCopy ==
    \/ HeapParseSource
    \/ HeapNewSource
    \/ HeapNewHolder
    \/ HeapCopyEither
    \/ HeapAddSource
    \/ HeapInsertSource
    \/ HeapSetSource
    \/ HeapEncodeSource

SpecCopy == InitCopy /\ [][NextCopy]_vars

(***************************************************************************)
(* SpecQuote: FromString on quoted texts with quotes, escaped or not, in   *)
(* between, and on the object texts that have such a text for their key.   *)
(***************************************************************************)
\* a   b   a quote   an escaped quote   a comma   ","
QuoteTokens == {<<97>>, <<98>>, <<34>>, <<92, 34>>, <<44>>, <<34, 44, 34>>}

QuotedTexts == {<<34>> \o Concat(ts) \o <<34>> : ts \in SeqsUpTo(QuoteTokens, MaxEntryTokens)}

\* { key : 1 }
ObjectWithKey(key) == <<123>> \o key \o <<58, 49, 125>>

QuoteTexts == QuotedTexts \cup {ObjectWithKey(key) : key \in QuotedTexts}

InitQuote ==
    /\ TablesReady
    /\ Cardinality(QuoteTexts) > 0
    /\ wrapv = TRUE
    /\ text \in QuoteTexts
    /\ Start

NextQuote == Parse

SpecQuote == InitQuote /\ [][NextQuote]_vars

(***************************************************************************)
(* SpecComma: FromString on array texts with commas in every place.        *)
(***************************************************************************)
\* 1   2   a comma   a space   "a,b"   [1,2]
CommaTokens ==
    { <<49>>, <<50>>, <<44>>, <<32>>, <<34, 97, 44, 98, 34>>, <<91, 49, 44, 50, 93>> }

CommaTexts == {<<91>> \o Concat(ts) \o <<93>> : ts \in SeqsUpTo(CommaTokens, MaxEntryTokens + 1)}

InitComma ==
    /\ TablesReady
    /\ Cardinality(CommaTexts) > 0
    /\ wrapv = TRUE
    /\ text \in CommaTexts
    /\ Start

NextComma == Parse

SpecComma == InitComma /\ [][NextComma]_vars

(***************************************************************************)
(* SpecRead: a value of any type in a, a value to compare it with in b,    *)
(* ToString calls with any options on either, and the accessors called on  *)
(* them and on their first elements.                                       *)
(***************************************************************************)
HeapNewRead == HeapNew({"a"}, ReadValues)

HeapNewPeer == HeapNew({"b"}, PeerValues)

HeapParsePeer == HeapParse({"b"}, PeerTexts)

HeapEncodeAny == HeapEncode(OptionSet, MaxHeapOps)

HeapReadValue == HeapRead(ReadHandleSet, ReadKeySet, ReadIndexSet)

NextRead ==
    \/ HeapNewRead
    \/ HeapNewPeer
    \/ HeapParsePeer
    \/ HeapEncodeAny
    \/ HeapReadValue

SpecRead == InitHeap /\ [][NextRead]_vars

(***************************************************************************)
(* SpecMisuse: a value of any type in a, encoded or not, and the mutators  *)
(* called on it and on its first element whatever their types.             *)
(***************************************************************************)
HeapAddAnywhere == HeapAddOn(Type, ReadHandleSet, HeapArgs, MaxHeapOps)

HeapInsertAnywhere == HeapInsertOn(Type, ReadHandleSet, HeapArgs, HeapIndexSet, MaxHeapOps)

HeapRemoveAtAnywhere == HeapRemoveAtOn(Type, ReadHandleSet, HeapIndexSet, MaxHeapOps)

HeapSetAnywhere == HeapSetOn(Type, ReadHandleSet, KeySet, HeapArgs, MaxHeapOps)

HeapRemoveKeyAnywhere == HeapRemoveKeyOn(Type, ReadHandleSet, KeySet, MaxHeapOps)

NextMisuse ==
    \/ HeapNewRead
    \/ HeapAddAnywhere
    \/ HeapInsertAnywhere
    \/ HeapRemoveAtAnywhere
    \/ HeapSetAnywhere
    \/ HeapRemoveKeyAnywhere
    \/ HeapEncodeValue

SpecMisuse == InitHeap /\ [][NextMisuse]_vars

(***************************************************************************)
(* SpecDirect: a container built in a, changed by mutators called on it,   *)
(* and encoded with the default options, in any order.                     *)
(***************************************************************************)
HeapNewDirect == HeapNew({"a"}, DirectSeeds)

HeapAddDirect == HeapAdd(SelfHandle, HeapArgs, MaxDirectOps)

HeapInsertDirect == HeapInsert(SelfHandle, HeapArgs, HeapIndexSet, MaxDirectOps)

HeapRemoveAtDirect == HeapRemoveAt(SelfHandle, HeapIndexSet, MaxDirectOps)

HeapSetDirect == HeapSet(SelfHandle, KeySet, HeapArgs, MaxDirectOps)

HeapRemoveKeyDirect == HeapRemoveKey(SelfHandle, KeySet, MaxDirectOps)

HeapEncodeDirect == HeapEncode({DefaultOptions}, MaxDirectOps)

NextDirect ==
    \/ HeapNewDirect
    \/ HeapAddDirect
    \/ HeapInsertDirect
    \/ HeapRemoveAtDirect
    \/ HeapSetDirect
    \/ HeapRemoveKeyDirect
    \/ HeapEncodeDirect

SpecDirect == InitHeap /\ [][NextDirect]_vars

(***************************************************************************)
(* SpecChild: a container built in a, its children changed through the     *)
(* pointers operator[] returns, and a encoded with the default options, in *)
(* any order.                                                              *)
(***************************************************************************)
HeapNewChild == HeapNew({"a"}, ChildSeeds)

HeapAddChild == HeapAdd(ChildHandleSet, HeapArgs, MaxDirectOps)

HeapInsertChild == HeapInsert(ChildHandleSet, HeapArgs, HeapIndexSet, MaxDirectOps)

HeapRemoveAtChild == HeapRemoveAt(ChildHandleSet, HeapIndexSet, MaxDirectOps)

HeapSetChild == HeapSet(ChildHandleSet, KeySet, HeapArgs, MaxDirectOps)

HeapRemoveKeyChild == HeapRemoveKey(ChildHandleSet, KeySet, MaxDirectOps)

NextChild ==
    \/ HeapNewChild
    \/ HeapAddChild
    \/ HeapInsertChild
    \/ HeapRemoveAtChild
    \/ HeapSetChild
    \/ HeapRemoveKeyChild
    \/ HeapEncodeDirect

SpecChild == InitHeap /\ [][NextChild]_vars

(***************************************************************************)
(* SpecString: a String built from a sampled sequence of codepoints,       *)
(* encoded once under one of the two escape settings, and then parsed      *)
(* again: the encoding itself, the encoding with the hex digits of its u   *)
(* escapes in lower case, and the encoding placed inside an array or an    *)
(* object.                                                                 *)
(***************************************************************************)
InitString ==
    /\ TablesReady
    /\ ValuesReady
    /\ wrapv = TRUE
    /\ text = <<>>
    /\ Start

ConstructString == Construct(SampledStrings)

EncodeString == Encode(EscapeSettings, 1)

ReparseLowerCase == ReparseText({LowerCaseEscapes(LastEncoding)})

ReparseInside == ReparseText(ContainerTextsOf(LastEncoding))

NextString ==
    \/ ConstructString
    \/ EncodeString
    \/ Reparse
    \/ ReparseLowerCase
    \/ ReparseInside

SpecString == InitString /\ [][NextString]_vars

(***************************************************************************)
(* The vocabulary of the properties: what the specification of the library *)
(* says about texts, stated without reference to the parser above.         *)
(***************************************************************************)
\* FromString has returned a value for text
Parsed == pc \in {"parsed", "encoded"}

IsSpace(c) == c = 32 \/ c = 9 \/ c = 13 \/ c = 10

\* the text without its leading and trailing whitespace
Trimmed(s) ==
    LET kept == {i \in 1..Len(s) : ~IsSpace(s[i])}
    IN  IF kept = {} THEN <<>>
        ELSE SubSeq(s, MinOf(kept), CHOOSE i \in kept : \A j \in kept : j <= i)

IsDecimalDigit(c) == c >= 48 /\ c <= 57

AllDigits(s) == s # <<>> /\ \A i \in 1..Len(s) : IsDecimalDigit(s[i])

\* a text without its leading minus sign, if it has one
Unsigned(s) == IF s # <<>> /\ s[1] = 45 THEN Tail(s) ELSE s

\* a single 0, or a nonzero digit followed by any digits
IntegralPart(s) == AllDigits(s) /\ (s[1] # 48 \/ Len(s) = 1)

\* an optional minus sign and an integral part
IntegerGrammar(s) == IntegralPart(Unsigned(s))

\* nothing, or a point followed by one or more digits
FractionPart(s) == s = <<>> \/ (s[1] = 46 /\ AllDigits(Tail(s)))

\* nothing, or e or E, an optional sign and one or more digits
ExponentPart(s) ==
    \/ s = <<>>
    \/ /\ s[1] = 101 \/ s[1] = 69
       /\ \/ AllDigits(Tail(s))
          \/ /\ Len(s) >= 2
             /\ s[2] = 43 \/ s[2] = 45
             /\ AllDigits(Tail(Tail(s)))

\* an optional minus sign, an integral part, a fraction part, an exponent part
NumberGrammar(s) ==
    LET u == Unsigned(s)
    IN  \E i \in 1..Len(u) : \E j \in i..Len(u) :
            /\ IntegralPart(SubSeq(u, 1, i))
            /\ FractionPart(SubSeq(u, i + 1, j))
            /\ ExponentPart(SubSeq(u, j + 1, Len(u)))

\* whether the digit sequence a denotes a number no larger than the digit
\* sequence b (neither has a leading zero)
RECURSIVE DigitsLeq(_, _)
DigitsLeq(a, b) ==
    IF Len(a) # Len(b) THEN Len(a) < Len(b)
    ELSE IF a = <<>> THEN TRUE
    ELSE IF a[1] # b[1] THEN a[1] < b[1]
    ELSE DigitsLeq(Tail(a), Tail(b))

\* 2147483647 and 2147483648 as digits
IntMaxDigits == <<50, 49, 52, 55, 52, 56, 51, 54, 52, 55>>

IntMinDigits == <<50, 49, 52, 55, 52, 56, 51, 54, 52, 56>>

\* the number an integer text denotes lies in -2147483648..2147483647
FitsInt32(s) ==
    IF s # <<>> /\ s[1] = 45 THEN DigitsLeq(Unsigned(s), IntMinDigits)
    ELSE DigitsLeq(s, IntMaxDigits)

\* minus the number a digit sequence denotes (so that 2147483648 is covered)
RECURSIVE NegatedValue(_)
NegatedValue(digits) ==
    IF digits = <<>> THEN 0
    ELSE NegatedValue(SubSeq(digits, 1, Len(digits) - 1)) * 10 - (digits[Len(digits)] - 48)

\* the number an integer text that fits denotes
IntegerValueOf(s) ==
    IF s # <<>> /\ s[1] = 45 THEN NegatedValue(Unsigned(s)) ELSE -NegatedValue(s)

\* the longest prefix of a digit sequence whose value is at most 2147483647
RECURSIVE FittingPrefix(_, _)
FittingPrefix(digits, n) ==
    IF n = 0 \/ DigitsLeq(SubSeq(digits, 1, n), IntMaxDigits) THEN n
    ELSE FittingPrefix(digits, n - 1)

HasFloatIndicator(s) == \E i \in 1..Len(s) : s[i] = 46 \/ s[i] = 101 \/ s[i] = 69

\* the integral part is a 0 followed by further digits
ZeroLedIntegralPart(s) ==
    LET u == Unsigned(s)
    IN  Len(u) >= 2 /\ u[1] = 48 /\ IsDecimalDigit(u[2])

(***************************************************************************)
(* C1  Round trip: for every value v built programmatically, parsing the   *)
(* default encoding of v gives a value equal to v under deep equality;     *)
(* this includes Integers with a digit 0 such as 10 and -2147483648,       *)
(* Strings, and Arrays and Objects nesting them.                           *)
(***************************************************************************)
C1_RoundTrip ==
    (pc = "reparsed" /\ Len(outs) = 1 /\ outs[1].options = DefaultOptions)
        => Equals(reparsed, json)

(***************************************************************************)
(* C2  Integer mode accepts the full grammar: every text made of an        *)
(* optional minus sign and either a single 0 or a nonzero digit followed by *)
(* any digits 0-9, whose value fits in 32 bits, parses to an Integer        *)
(* holding exactly that number.                                            *)
(***************************************************************************)
C2_IntegerGrammarAccepted ==
    (Parsed /\ IntegerGrammar(text) /\ FitsInt32(text))
        => (json.type = "Integer" /\ json.integerValue = IntegerValueOf(text))

(***************************************************************************)
(* C3  No silent fallback: a text that is no container, no quoted string   *)
(* and none of null, true, false, and that violates the number grammar,    *)
(* parses to Invalid, never to an Integer or FloatingPoint.                *)
(***************************************************************************)
C3_NoSilentFallback ==
    (Parsed /\ ~NumberGrammar(text)) => json.type = "Invalid"

(***************************************************************************)
(* C4  Integer overflow never wraps: where signed arithmetic wraps around  *)
(* in 32 bits, for every decimal literal (optionally negative) whose       *)
(* magnitude exceeds 2147483647 the check value / 10 != previousValue is   *)
(* true at the first overflowing digit, and FromString returns Invalid.    *)
(***************************************************************************)
C4_OverflowNeverWraps ==
    (Parsed /\ wrapv /\ IntegerGrammar(text) /\ ~DigitsLeq(Unsigned(text), IntMaxDigits))
        => LET digits == Unsigned(text)
               n == FittingPrefix(digits, Len(digits))
               previousValue == -NegatedValue(SubSeq(digits, 1, n))
           IN  /\ OverflowCheck(MulAdd10(previousValue, digits[n + 1] - 48), previousValue)
               /\ json.type = "Invalid"

\* an overflowing literal has been parsed where the product wraps to a larger value
C4_Witness ==
    /\ pc = "encoded"
    /\ wrapv
    /\ text = <<53, 49, 49, 49, 49, 49, 49, 49, 49, 49>>
    /\ json.type = "Invalid"

(***************************************************************************)
(* C5  Floating-point mode rejects an invalid integral part: a text with   *)
(* '.', 'e' or 'E' whose integral part is a 0 followed by further digits   *)
(* parses to Invalid, while a text of the grammar with the single leading  *)
(* 0 before the '.' parses to a FloatingPoint.                             *)
(***************************************************************************)
C5_ZeroLedIntegralPartRejected ==
    /\ (Parsed /\ HasFloatIndicator(text) /\ ZeroLedIntegralPart(text))
           => json.type = "Invalid"
    /\ (Parsed /\ NumberGrammar(text) /\ Len(Unsigned(text)) >= 2
               /\ Unsigned(text)[1] = 48 /\ Unsigned(text)[2] = 46)
           => json.type = "FloatingPoint"

(***************************************************************************)
(* The pieces of a string interior, read from left to right: a plain       *)
(* character, a two-character escape, a u escape with its four hex digits, *)
(* or a malformed escape (which ends the reading).  Each piece is          *)
(* [kind, cp]; cp is the number a u escape denotes.                        *)
(***************************************************************************)
ShortEscapeLetters == {34, 92, 47, 98, 102, 110, 114, 116}

IsHexLetter(c) == (c >= 48 /\ c <= 57) \/ (c >= 65 /\ c <= 70) \/ (c >= 97 /\ c <= 102)

HexLetterValue(c) == IF c <= 57 THEN c - 48 ELSE IF c <= 70 THEN c - 55 ELSE c - 87

RECURSIVE PiecesFrom(_, _)
PiecesFrom(s, i) ==
    IF i > Len(s) THEN <<>>
    ELSE IF s[i] # 92
    THEN <<[kind |-> "char", cp |-> s[i]]>> \o PiecesFrom(s, i + 1)
    ELSE IF i = Len(s) THEN <<[kind |-> "malformed", cp |-> 0]>>
    ELSE IF s[i + 1] = 117
    THEN IF i + 5 <= Len(s) /\ \A k \in (i + 2)..(i + 5) : IsHexLetter(s[k])
         THEN <<[kind |-> "u",
                 cp |-> HexLetterValue(s[i + 2]) * 4096 + HexLetterValue(s[i + 3]) * 256
                        + HexLetterValue(s[i + 4]) * 16 + HexLetterValue(s[i + 5])]>>
              \o PiecesFrom(s, i + 6)
         ELSE <<[kind |-> "malformed", cp |-> 0]>>
    ELSE IF s[i + 1] \in ShortEscapeLetters
    THEN <<[kind |-> "short", cp |-> s[i + 1]]>> \o PiecesFrom(s, i + 2)
    ELSE <<[kind |-> "malformed", cp |-> 0]>>

Pieces(s) == PiecesFrom(s, 1)

\* a backslash followed by a character outside the escape letters, a u escape
\* with a non-hex digit among its four, or a text that ends inside an escape
HasMalformedEscape(s) == \E i \in 1..Len(Pieces(s)) : Pieces(s)[i].kind = "malformed"

IsHighSurrogateEscape(p) == p.kind = "u" /\ p.cp >= 55296 /\ p.cp <= 56319

IsLowSurrogateEscape(p) == p.kind = "u" /\ p.cp >= 56320 /\ p.cp <= 57343

\* a high surrogate escape not immediately followed by a low one, or a low
\* surrogate escape not immediately preceded by a high one
HasUnpairedSurrogate(s) ==
    LET ps == Pieces(s)
    IN  \E i \in 1..Len(ps) :
            \/ IsHighSurrogateEscape(ps[i])
               /\ ~(i < Len(ps) /\ IsLowSurrogateEscape(ps[i + 1]))
            \/ IsLowSurrogateEscape(ps[i])
               /\ ~(i > 1 /\ IsHighSurrogateEscape(ps[i - 1]))

\* the trimmed text is quoted, and what lies between its quotes
IsQuotedText(s) ==
    LET t == Trimmed(s) IN Len(t) >= 2 /\ t[1] = 34 /\ t[Len(t)] = 34

InteriorOf(s) == LET t == Trimmed(s) IN SubSeq(t, 2, Len(t) - 1)

\* "(Invalid JSON: " + s + ")"
InvalidJsonText(s) ==
    <<40, 73, 110, 118, 97, 108, 105, 100, 32, 74, 83, 79, 78, 58, 32>> \o s \o <<41>>

C7_UnpairedSurrogateInvalid ==
    (Parsed /\ IsQuotedText(text) /\ HasUnpairedSurrogate(InteriorOf(text)))
        => json.type = "Invalid"

(***************************************************************************)
(* The escapes of a surrogate pair, computed from the codepoint.            *)
(***************************************************************************)
\* the four upper-case hex digits of n
FourHexLetters(n) ==
    [i \in 1..4 |->
        LET nibble == (n \div (16 ^ (4 - i))) % 16
        IN  IF nibble < 10 THEN 48 + nibble ELSE 55 + nibble]

UEscapeOf(n) == <<92, 117>> \o FourHexLetters(n)

HighHalfOf(cp) == 55296 + (((cp - 65536) \div 1024) % 1024)

LowHalfOf(cp) == 56320 + ((cp - 65536) % 1024)

(***************************************************************************)
(* C8  Surrogate-pair round trip: for a codepoint cp in 0x10000..0x10FFFF, *)
(* escaping with escapeNonAscii emits exactly two u escapes, the first of  *)
(* 0xD800 + (((cp - 0x10000) >> 10) & 0x3FF) and the second of             *)
(* 0xDC00 + ((cp - 0x10000) & 0x3FF), and unescaping that pair gives the   *)
(* single codepoint cp again.                                              *)
(***************************************************************************)
C8_SurrogatePairRoundTrip ==
    (pc \in {"encoded", "reparsed"} /\ json.type = "String" /\ Len(json.stringValue) = 1
        /\ json.stringValue[1] >= 65536 /\ json.stringValue[1] <= 1114111
        /\ Len(outs) = 1 /\ outs[1].options = [DefaultOptions EXCEPT !.escapeNonAscii = TRUE])
    => LET cp == json.stringValue[1]
       IN  /\ outs[1].s = <<34>> \o UEscapeOf(HighHalfOf(cp)) \o UEscapeOf(LowHalfOf(cp))
                               \o <<34>>
           /\ pc = "reparsed"
                  => (reparsed.type = "String" /\ reparsed.stringValue = <<cp>>)

\* the last codepoint of the range has been escaped and parsed back
C8_Witness ==
    /\ pc = "reparsed"
    /\ json.stringValue = <<1114111>>
    /\ outs[1].s = <<34, 92, 117, 68, 66, 70, 70, 92, 117, 68, 70, 70, 70, 34>>
    /\ reparsed.stringValue = <<1114111>>

(***************************************************************************)
(* C9  Idempotent encoding: for a value returned by FromString from an     *)
(* accepted text (or built programmatically), two ToString calls with the  *)
(* same options and no mutation in between return identical strings, and   *)
(* a following ToString with deleteCache set, the other options equal,     *)
(* returns that same string.                                               *)
(***************************************************************************)
C9_IdempotentEncoding ==
    (json.type # "Invalid" /\ Len(outs) >= 2 /\ outs[2].options = outs[1].options)
        => /\ outs[2].s = outs[1].s
           /\ (Len(outs) >= 3
                 /\ outs[3].options = [outs[1].options EXCEPT !.deleteCache = TRUE])
                    => outs[3].s = outs[1].s

(***************************************************************************)
(* The compact canonical form of a value, whatever its caches hold.        *)
(***************************************************************************)
RECURSIVE Canonical(_)
RECURSIVE CanonicalJoin(_, _)
\* the canonical forms of the items from the i-th on, joined by commas;
\* an item is a value or a [key, value] entry
CanonicalJoin(items, i) ==
    IF i > Len(items) THEN <<>>
    ELSE LET item == items[i]
             one == IF "key" \in DOMAIN item
                    THEN <<34>> \o escape(item.key, DefaultOptions) \o <<34, 58>>
                         \o Canonical(item.value)
                    ELSE Canonical(item)
         IN  (IF i = 1 THEN <<>> ELSE <<44>>) \o one \o CanonicalJoin(items, i + 1)

Canonical(v) ==
    CASE v.type = "Null" -> <<110, 117, 108, 108>>
      [] v.type = "Boolean" ->
            IF v.booleanValue THEN <<116, 114, 117, 101>> ELSE <<102, 97, 108, 115, 101>>
      [] v.type = "Integer" -> FormatInt(v.integerValue)
      [] v.type = "FloatingPoint" -> FormatLg(v.floatingPointValue)
      [] v.type = "String" -> <<34>> \o escape(v.stringValue, DefaultOptions) \o <<34>>
      [] v.type = "Array" -> <<91>> \o CanonicalJoin(v.arrayValues, 1) \o <<93>>
      [] v.type = "Object" -> <<123>> \o CanonicalJoin(v.objectValues, 1) \o <<125>>

(***************************************************************************)
(* C10  Default output is the compact canonical form: for every value      *)
(* that is not Invalid, constructed or parsed, ToString with default       *)
(* options returns null, true, false, decimal digits, the quoted escaped   *)
(* string, '[' + the comma-joined encodings of the children + ']' or       *)
(* '{' + the comma-joined "key":value + '}', with no whitespace outside    *)
(* string literals.                                                        *)
(***************************************************************************)
C10_DefaultOutputCanonical ==
    (pc = "encoded" /\ json.type # "Invalid" /\ Len(outs) = 1
        /\ outs[1].options = DefaultOptions)
        => outs[1].s = Canonical(json)

(***************************************************************************)
(* C11  Pretty and compact encodings re-parse to the same value: for every *)
(* Array or Object tree v, empty containers and nested empty containers    *)
(* included, FromString of the text ToString gives with prettyPrint and    *)
(* deleteCache equals FromString of the text it gives with deleteCache     *)
(* alone.                                                                  *)
(***************************************************************************)
C11_PrettyReparsesAsCompact ==
    (pc = "reparsed" /\ Len(outs) = 2
        /\ outs[1].options = CompactAnew /\ outs[2].options = PrettyAnew)
        => Equals(reparsed, FromString(outs[1].s, wrapv))

(***************************************************************************)
(* The vocabulary of the properties on container texts: the scanner as the *)
(* specification describes it, with the stack of expected closers (the     *)
(* innermost first) and a string being open when that closer is a quote.   *)
(***************************************************************************)
\* "Array" or "Object" for a trimmed text in brackets or braces, else "None"
ContainerKind(t) ==
    IF Len(t) >= 2 /\ t[1] = 123 /\ t[Len(t)] = 125 THEN "Object"
    ELSE IF Len(t) >= 2 /\ t[1] = 91 /\ t[Len(t)] = 93 THEN "Array"
    ELSE "None"

\* the scan of s from position i on: where the span ends, whether a
\* delimiter ended it, and the closers still expected there
RECURSIVE ScanSpan(_, _, _, _)
ScanSpan(s, i, closers, delimiter) ==
    IF i > Len(s) THEN [last |-> Len(s), delimited |-> FALSE, closers |-> closers]
    ELSE LET c == s[i] IN
         IF closers # <<>> /\ c = Head(closers)
         THEN ScanSpan(s, i + 1, Tail(closers), delimiter)
         ELSE IF closers # <<>> /\ Head(closers) = 34
         THEN ScanSpan(s, i + 1, closers, delimiter)
         ELSE IF c = 34 THEN ScanSpan(s, i + 1, <<34>> \o closers, delimiter)
         ELSE IF c = 91 THEN ScanSpan(s, i + 1, <<93>> \o closers, delimiter)
         ELSE IF c = 123 THEN ScanSpan(s, i + 1, <<125>> \o closers, delimiter)
         ELSE IF c = delimiter /\ closers = <<>>
         THEN [last |-> i, delimited |-> TRUE, closers |-> closers]
         ELSE ScanSpan(s, i + 1, closers, delimiter)

\* the scan over the interior ends with a string, array or object open,
\* wherever the delimiters cut it (-1 is no codepoint, so no delimiter here)
Unbalanced(interior) == ScanSpan(interior, 1, <<>>, -1).closers # <<>>

\* the key spans of an object interior, from position i on: each key runs
\* to the next top-level colon, its value to the next top-level comma
RECURSIVE KeySpansFrom(_, _)
KeySpansFrom(s, i) ==
    IF i > Len(s) THEN {}
    ELSE LET k == ScanSpan(s, i, <<>>, 58) IN
         IF k.closers # <<>> THEN {}
         ELSE LET key == SubSeq(s, i, IF k.delimited THEN k.last - 1 ELSE k.last)
                  v == ScanSpan(s, k.last + 1, <<>>, 44)
              IN  {key} \cup (IF v.closers # <<>> THEN {} ELSE KeySpansFrom(s, v.last + 1))

\* no node below v has type Invalid
RECURSIVE NoInvalidInside(_)
NoInvalidInside(v) ==
    /\ \A i \in 1..Len(v.arrayValues) :
          v.arrayValues[i].type # "Invalid" /\ NoInvalidInside(v.arrayValues[i])
    /\ \A i \in 1..Len(v.objectValues) :
          v.objectValues[i].value.type # "Invalid" /\ NoInvalidInside(v.objectValues[i].value)

(***************************************************************************)
(* C12  Nested parse failures propagate: when FromString returns an Array  *)
(* or an Object, no element or mapped value anywhere in that tree has type *)
(* Invalid; a text with an element that fails to parse gives Invalid for   *)
(* the containing value.                                                   *)
(***************************************************************************)
C12_NestedFailuresPropagate ==
    (Parsed /\ json.type \in {"Array", "Object"}) => NoInvalidInside(json)

(***************************************************************************)
(* C13  Unbalanced delimiters invalidate the container: when the scan of   *)
(* an array or object interior reaches the end of the input with a string, *)
(* array or object still open, FromString of the container text returns    *)
(* Invalid, for objects too, where the test after the scan for the value   *)
(* looks at the key again.                                                 *)
(***************************************************************************)
C13_UnbalancedInvalid ==
    (Parsed /\ ContainerKind(Trimmed(text)) # "None" /\ Unbalanced(InteriorOf(text)))
        => json.type = "Invalid"

\* an object whose value leaves an array open has been parsed
C13_Witness ==
    /\ pc = "parsed"
    /\ text = <<123, 34, 97, 34, 58, 91, 125>>
    /\ json.type = "Invalid"

(***************************************************************************)
(* C14  FromString always returns normally: for every input text it        *)
(* returns a value and never faults; every sequence access made while      *)
(* parsing is in bounds and every range taken is well formed.              *)
(***************************************************************************)
C14_FromStringNeverFaults == pc # "fault"

(***************************************************************************)
(* C15  Object keys must be strings: when a key span of an object text     *)
(* parses to a value that is no String (a number, a literal, a container   *)
(* or Invalid), FromString returns Invalid for the whole object.           *)
(***************************************************************************)
C15_NonStringKeyInvalid ==
    (Parsed /\ ContainerKind(Trimmed(text)) = "Object"
        /\ \E key \in KeySpansFrom(InteriorOf(text), 1) :
              FromString(key, wrapv).type # "String")
        => json.type = "Invalid"

\* an object whose second key is a number has been parsed
C15_Witness ==
    /\ pc = "parsed"
    /\ text = <<123, 34, 97, 34, 58, 49, 44, 49, 58, 50, 125>>
    /\ json.type = "Invalid"

(***************************************************************************)
(* The vocabulary of the properties on values in memory.                   *)
(***************************************************************************)
\* the value mapped under a key of an Object value
ValueUnder(v, key) ==
    LET i == CHOOSE i \in 1..Len(v.objectValues) : v.objectValues[i].key = key
    IN  v.objectValues[i].value

KeysOf(v) == {v.objectValues[i].key : i \in 1..Len(v.objectValues)}

\* deep equality as the specification defines it
RECURSIVE DeepEqual(_, _)
DeepEqual(x, y) ==
    /\ x.type = y.type
    /\ CASE x.type \in {"Invalid", "Null"} -> TRUE
         [] x.type = "Boolean" -> x.booleanValue = y.booleanValue
         [] x.type = "Integer" -> x.integerValue = y.integerValue
         [] x.type = "FloatingPoint" -> x.floatingPointValue = y.floatingPointValue
         [] x.type = "String" -> x.stringValue = y.stringValue
         [] x.type = "Array" ->
               /\ Len(x.arrayValues) = Len(y.arrayValues)
               /\ \A i \in 1..Len(x.arrayValues) : DeepEqual(x.arrayValues[i], y.arrayValues[i])
         [] x.type = "Object" ->
               /\ KeysOf(x) = KeysOf(y)
               /\ \A key \in KeysOf(x) : DeepEqual(ValueUnder(x, key), ValueUnder(y, key))

\* the sequence without its element at position i (counted from 1)
Without(seq, i) == SubSeq(seq, 1, i - 1) \o SubSeq(seq, i + 1, Len(seq))

\* the value of the object the last operation was called on
Target == TreeOf(heap, op.target)

(***************************************************************************)
(* C16  Deep equality respects array order and ignores object insertion    *)
(* order: two Arrays are equal iff they have the same length and pairwise  *)
(* equal elements; two Objects are equal iff they have the same key set    *)
(* and equal values under each key, in whatever order the keys were set or *)
(* parsed; values of different types are never equal; any two Invalid      *)
(* values are equal whatever their source texts.                           *)
(***************************************************************************)
C16_DeepEquality ==
    (roots.a # 0 /\ roots.b # 0)
        => /\ Equals(Trees.a, Trees.b) <=> DeepEqual(Trees.a, Trees.b)
           /\ Equals(Trees.b, Trees.a) <=> DeepEqual(Trees.a, Trees.b)

\* two objects parsed from texts that list the same entries in two orders
C16_Witness ==
    /\ roots.a # 0 /\ roots.b # 0
    /\ Trees.a.encoding = <<123, 34, 97, 34, 58, 49, 44, 34, 98, 34, 58, 50, 125>>
    /\ Trees.b.encoding = <<123, 34, 98, 34, 58, 50, 44, 34, 97, 34, 58, 49, 125>>
    /\ Equals(Trees.a, Trees.b)

(***************************************************************************)
(* C17  Array mutation semantics: on an Array of size n, insert(v, p)      *)
(* gives size n + 1 with an element equal to v at position min(p, n) and   *)
(* the previous elements in their previous order; add(v) does what         *)
(* insert(v, n) does; remove(p) with p < n removes exactly the element at  *)
(* p and keeps the order of the rest; remove(p) with p >= n leaves the     *)
(* array as it was.                                                        *)
(***************************************************************************)
C17_ArrayMutations ==
    LET old == op.targetBefore.arrayValues
        new == Target.arrayValues
        n == Len(old)
        p == IF op.name = "add" \/ op.index > n THEN n ELSE op.index
    IN  /\ op.name \in {"insert", "add"}
            => /\ getSize(Target) = n + 1
               /\ Equals(new[p + 1], op.arg)
               /\ Without(new, p + 1) = old
        /\ (op.name = "removeAt" /\ op.index < n)
            => /\ getSize(Target) = n - 1
               /\ new = Without(old, op.index + 1)
        /\ (op.name = "removeAt" /\ op.index >= n) => Target = op.targetBefore

\* 7 has been inserted at position 9 of [26,50] and stands at position 2
C17_Witness ==
    /\ op.name = "insert"
    /\ op.index = 9
    /\ Len(op.targetBefore.arrayValues) = 2
    /\ Target.arrayValues = <<JSONInt(26), JSONInt(50), JSONInt(7)>>

(***************************************************************************)
(* C18  Object mutation semantics: after set(k, v) on an Object, has(k) is *)
(* true, indexing by k gives a value equal to v, and an earlier mapping of *)
(* k is overwritten with getSize unchanged; after remove(k), has(k) is     *)
(* false, indexing by k gives nothing, and the next ToString has no entry  *)
(* for k; all other keys keep their values.                                *)
(***************************************************************************)
C18_ObjectMutations ==
    LET old == op.targetBefore
        others == KeysOf(old) \ {op.key}
    IN  /\ op.name = "set"
            => /\ has(Target, op.key)
               /\ IndexByKey(heap, op.target, op.key) # 0
               /\ Equals(TreeOf(heap, IndexByKey(heap, op.target, op.key)), op.arg)
               /\ has(old, op.key) => getSize(Target) = getSize(old)
               /\ KeysOf(Target) = KeysOf(old) \cup {op.key}
               /\ \A key \in others : ValueUnder(Target, key) = ValueUnder(old, key)
        /\ op.name = "removeKey"
            => /\ ~has(Target, op.key)
               /\ IndexByKey(heap, op.target, op.key) = 0
               /\ KeysOf(Target) = others
               /\ \A key \in others : ValueUnder(Target, key) = ValueUnder(old, key)
               /\ ToStringS(Target, DefaultOptions)
                      = Canonical([old EXCEPT !.objectValues =
                                       SelectSeq(@, LAMBDA e : e.key # op.key)])

\* a key has been removed from an object that held its encoding in the cache
C18_Witness ==
    /\ op.name = "removeKey"
    /\ op.key = <<97>>
    /\ has(op.targetBefore, <<97>>)
    /\ op.targetBefore.encoding # <<>>
    /\ ToStringS(Target, DefaultOptions) = <<123, 34, 98, 34, 58, 50, 125>>

(***************************************************************************)
(* The shape of the objects in memory.                                     *)
(***************************************************************************)
\* following pointers from the object id, every path ends within fuel steps
RECURSIVE EndsWithin(_, _, _)
EndsWithin(h, id, fuel) ==
    /\ fuel > 0
    /\ \A child \in ChildrenOf(h[id]) : EndsWithin(h, child, fuel - 1)

\* no path from the object leads back to an object on it
Acyclic(h, id) == EndsWithin(h, id, Len(h))

\* the number of container levels of a value
RECURSIVE Depth(_)
Depth(v) ==
    LET below == {Depth(v.arrayValues[i]) : i \in 1..Len(v.arrayValues)}
                     \cup {Depth(v.objectValues[i].value) : i \in 1..Len(v.objectValues)}
    IN  IF v.type \notin {"Array", "Object"} THEN 0
        ELSE IF below = {} THEN 1
        ELSE 1 + (CHOOSE d \in below : \A e \in below : e <= d)

(***************************************************************************)
(* C19  Self-containment: add and insert store a copy of the argument as   *)
(* it is at the time of the call, so after arr.add(arr) the array holds a  *)
(* snapshot of its previous contents nested exactly once, the tree is      *)
(* finite and acyclic, and ToString on it terminates: for [26,50] it       *)
(* returns [26,50,[26,50]].                                                *)
(***************************************************************************)
C19_SelfContainment ==
    (op.name \in {"add", "insert"} /\ op.self)
        => /\ Acyclic(heap, op.target)
           /\ LET old == op.targetBefore
                  n == Len(old.arrayValues)
                  p == IF op.name = "add" \/ op.index > n THEN n ELSE op.index
                  stored == Target.arrayValues[p + 1]
              IN  /\ stored.arrayValues = copyFrom(old).arrayValues
                  /\ DeepEqual(stored, old)
                  /\ Depth(Target) = Depth(old) + 1
                  /\ ToStringS(Target, DefaultOptions)
                         = Canonical([old EXCEPT !.arrayValues =
                                          SubSeq(@, 1, p) \o <<old>> \o SubSeq(@, p + 1, n)])

\* [26,50] has been added to itself and encodes as [26,50,[26,50]]
C19_Witness ==
    /\ op.name = "add"
    /\ op.self
    /\ op.target = roots.a
    /\ ToStringS(Trees.a, DefaultOptions)
           = <<91, 50, 54, 44, 53, 48, 44, 91, 50, 54, 44, 53, 48, 93, 93>>

(***************************************************************************)
(* C20  Copies are independent: after b = a (copy construction or copy     *)
(* assignment), an add, insert, remove or set applied to a, to b, or to a  *)
(* child of either reached through indexing changes only that tree; the    *)
(* contents of the other tree, its equality results and its fresh encoding *)
(* stay as they were.                                                      *)
(***************************************************************************)
C20_CopiesIndependent ==
    \A r \in Variables :
        (op.name \in {"add", "insert", "removeAt", "set", "removeKey"}
            /\ op.root # r /\ roots[r] # 0)
            => /\ Trees[r] = op.before[r]
               /\ Equals(Trees[r], op.before[r])
               /\ Equals(Trees[r], op.before[op.root])
                      <=> Equals(op.before[r], op.before[op.root])
               /\ ToStringS(Trees[r], CompactAnew) = ToStringS(op.before[r], CompactAnew)

\* the first element of a has been added to through a pointer, after a copy
C20_Witness ==
    /\ op.name = "add"
    /\ op.root = "a"
    /\ op.target # roots.a
    /\ roots.b # 0
    /\ Trees.a # op.before.a
    /\ Equals(Trees.b, op.before.a)

(***************************************************************************)
(* The vocabulary of the properties on the accessors.                      *)
(***************************************************************************)
\* every object in memory
Objects == 1..Len(heap)

\* the double d is the int value, widened: the same number
IsWidened(d, value) ==
    /\ d.kind = "finite"
    /\ d.exp >= 0
    /\ d.exp <= 9
    /\ value % (10 ^ d.exp) = 0
    /\ value \div (10 ^ d.exp) = (IF value < 0 THEN -d.mant ELSE d.mant)
    /\ d.neg = (value < 0)

\* the int r is the double d with its fraction dropped: r has the sign of d
\* (or is 0), and the magnitude of r is the integral part of the magnitude of d
IsTruncationOf(r, d) ==
    LET magnitude == IF r < 0 THEN -r ELSE r
    IN  /\ d.kind = "finite"
        /\ r > INT_MIN
        /\ r < 0 => d.neg
        /\ r > 0 => ~d.neg
        /\ IF d.exp >= 0
           THEN /\ d.exp <= 9
                /\ magnitude % (10 ^ d.exp) = 0
                /\ magnitude \div (10 ^ d.exp) = d.mant
           ELSE IF -d.exp > 9 THEN magnitude = 0
           ELSE magnitude = d.mant \div (10 ^ (-d.exp))

(***************************************************************************)
(* C21  The encoding cache is transparent to semantics: no ToString call,  *)
(* whatever its options (deleteCache, escapeNonAscii, prettyPrint), changes *)
(* what getType, getSize, has, indexing and the scalar coercions return on *)
(* any object, nor the result of == and != between any two objects.        *)
(***************************************************************************)
C21_CacheTransparent ==
    [][op'.name = "encode"
        => /\ \A id \in Objects :
                 Reads(id, ReadKeySet, ReadIndexSet)' = Reads(id, ReadKeySet, ReadIndexSet)
           /\ \A x, y \in Objects :
                 Equals(TreeOf(heap, x), TreeOf(heap, y))'
                     = Equals(TreeOf(heap, x), TreeOf(heap, y))]_vars

\* a pretty ToString on a, which held its compact encoding, with b equal to a
\* and never encoded
C21_Witness ==
    /\ op.name = "encode"
    /\ op.root = "a"
    /\ op.options.prettyPrint
    /\ op.before.a.encoding = <<91, 50, 54, 44, 53, 48, 93>>
    /\ roots.b # 0
    /\ Trees.b.encoding = <<>>
    /\ Equals(Trees.a, Trees.b)

(***************************************************************************)
(* C22  Type mismatch and out-of-range use never fail and return the       *)
(* documented defaults: getSize is 0 for every non-container; has(k) is    *)
(* false for every non-Object; indexing by position gives nothing for a    *)
(* non-Array, for a position >= size and for a negative int index;         *)
(* indexing by key gives nothing for a non-Object or a missing key; the    *)
(* coercions to bool, string, int and double return false, "", 0 and 0.0   *)
(* on a tag mismatch, except that an Integer read as double widens and a   *)
(* FloatingPoint read as int truncates toward zero.                        *)
(***************************************************************************)
C22_DefaultsOnMismatch ==
    op.name = "read" =>
        LET v == op.targetBefore
            got == op.got
        IN  /\ v.type \notin {"Array", "Object"} => got.size = 0
            /\ \A key \in ReadKeySet :
                  /\ v.type # "Object" => ~got.has[key] /\ got.atKey[key] = 0
                  /\ (v.type = "Object" /\ key \notin KeysOf(v)) => got.atKey[key] = 0
            /\ \A index \in ReadIndexSet :
                  (v.type # "Array" \/ index < 0 \/ index >= Len(v.arrayValues))
                      => got.atIndex[index] = 0
            /\ v.type # "Boolean" => got.asBool = FALSE
            /\ v.type # "String" => got.asString = <<>>
            /\ v.type \notin {"Integer", "FloatingPoint"}
                  => got.asInt = 0 /\ got.asDouble = DblZero
            /\ v.type = "Integer" => IsWidened(got.asDouble, v.integerValue)
            /\ v.type = "FloatingPoint" => IsTruncationOf(got.asInt, v.floatingPointValue)

\* the last operation was a mutator called on an object of another variant
WrongVariant ==
    \/ op.name \in {"add", "insert", "removeAt"} /\ op.targetBefore.type # "Array"
    \/ op.name \in {"set", "removeKey"} /\ op.targetBefore.type # "Object"

(***************************************************************************)
(* C23  Wrong-variant mutations are no-ops: add, insert and remove by      *)
(* position on a non-Array, and set and remove by key on a non-Object,     *)
(* leave the type, the payload, the cached encoding and the output of the  *)
(* following ToString as they were; and no mutator changes the type tag of *)
(* the value it is called on.                                              *)
(***************************************************************************)
C23_WrongVariantNoOp ==
    /\ WrongVariant
        => /\ Target = op.targetBefore
           /\ Trees = op.before
           /\ \A options \in OptionSet :
                 ToStringS(Target, options) = ToStringS(op.targetBefore, options)
    /\ op.name \in {"add", "insert", "removeAt", "set", "removeKey"}
        => Target.type = op.targetBefore.type

\* add has been called on a String that held its encoding in the cache
C23_Witness ==
    /\ op.name = "add"
    /\ op.targetBefore.type = "String"
    /\ op.targetBefore.encoding = <<34, 97, 233, 34>>
    /\ Target.encoding = <<34, 97, 233, 34>>

(***************************************************************************)
(* C24  Direct mutation invalidates the cache: for a container built       *)
(* through the constructors and mutators, after any interleaving of add,   *)
(* insert, remove and set on it with ToString calls with the default       *)
(* options, every ToString returns the compact encoding of what the        *)
(* container holds at that moment, never one from before the last          *)
(* mutation.                                                               *)
(***************************************************************************)
C24_DirectMutationInvalidates ==
    op.name = "encode" => op.out = Canonical(op.targetBefore)

\* [26,50] was encoded, then 7 was added to it, and it has been encoded again
C24_Witness ==
    /\ op.name = "encode"
    /\ op.targetBefore.encoding = <<>>
    /\ Len(op.targetBefore.arrayValues) = 3
    /\ op.targetBefore.arrayValues[1].encoding = <<50, 54>>
    /\ op.out = <<91, 50, 54, 44, 53, 48, 44, 55, 93>>

(***************************************************************************)
(* C25  A mutation of a child through the pointer indexing returned is     *)
(* visible in the encoding of its ancestors: after add, insert, remove or  *)
(* set on the object that index-by-position or index-by-key gave, the next *)
(* ToString with the default options on the parent, also a parent that had *)
(* been encoded before, gives the new contents of the child.               *)
(***************************************************************************)
C25_ChildMutationVisible ==
    (op.name = "encode" /\ op.target = roots.a)
        => op.out = ToStringS(copyFrom(op.targetBefore), DefaultOptions)

(***************************************************************************)
(* C26  ToString is a function of the tree and the options only: for a     *)
(* value that is not changed in between, ToString(options) returns the     *)
(* same string whatever ToString calls with other options came before it,  *)
(* also without deleteCache: after a default call, a call with             *)
(* escapeNonAscii returns the escaped form and a call with prettyPrint the *)
(* pretty form, and children encoded earlier under other options do not    *)
(* show in it.                                                             *)
(***************************************************************************)
C26_OutputDependsOnTreeAndOptions ==
    pc = "encoded"
        => \A i \in 1..Len(outs) :
              outs[i].s = ToStringS(copyFrom(json), outs[i].options)

(***************************************************************************)
(* The vocabulary of the properties on strings.                            *)
(***************************************************************************)
\* a String equal to s
IsStringOf(v, s) == v.type = "String" /\ v.stringValue = s

\* FromString has been called on the given text and has come back
Reparsed(t) == pc \in {"reparsed", "fault"} /\ text = t

(***************************************************************************)
(* C27  The scanner honours quoting inside containers: for every String s, *)
(* also one with a double quote or a backslash in it, FromString of        *)
(* "[" + ToString(s) + "]" is an Array of exactly one element, the String  *)
(* s, and FromString of an object with ToString(s) as its key or as its    *)
(* value is an Object holding s there; a quote after a backslash does not  *)
(* end the string.                                                         *)
(***************************************************************************)
C27_QuotingInsideContainers ==
    (Len(outs) = 1 /\ outs[1].options = DefaultOptions /\ json.type = "String")
    => LET s == json.stringValue
           e == outs[1].s
       IN  /\ Reparsed(AsElement(e))
                => /\ pc = "reparsed"
                   /\ reparsed.type = "Array"
                   /\ Len(reparsed.arrayValues) = 1
                   /\ IsStringOf(reparsed.arrayValues[1], s)
           /\ Reparsed(AsKey(e))
                => /\ pc = "reparsed"
                   /\ reparsed.type = "Object"
                   /\ KeysOf(reparsed) = {s}
           /\ Reparsed(AsValue(e))
                => /\ pc = "reparsed"
                   /\ reparsed.type = "Object"
                   /\ KeysOf(reparsed) = {<<107>>}
                   /\ IsStringOf(ValueUnder(reparsed, <<107>>), s)

(***************************************************************************)
(* C28  A quoted string needs two quote characters: FromString of the text *)
(* of a single double quote, with or without whitespace around it, returns *)
(* Invalid; the string branch is for trimmed texts of length two or more.  *)
(***************************************************************************)
C28_LoneQuoteInvalid ==
    (pc # "start" /\ Trimmed(text) = <<34>>)
        => (pc \in {"parsed", "encoded"} /\ json.type = "Invalid")

(***************************************************************************)
(* C29  String contents round-trip at top level under both escape          *)
(* settings: for every string s of Unicode scalar values, with             *)
(* escapeNonAscii off and on, FromString of the quote, the escaped s and   *)
(* the quote is a String whose string coercion is s; the hex digits of the *)
(* u escapes are accepted in upper case and in lower case.                 *)
(***************************************************************************)
C29_StringRoundTrip ==
    (json.type = "String" /\ Len(outs) = 1
        /\ (\A i \in 1..Len(json.stringValue) : IsScalarValue(json.stringValue[i]))
        /\ (Reparsed(outs[1].s) \/ Reparsed(LowerCaseEscapes(outs[1].s))))
    => /\ outs[1].s = <<34>> \o escape(json.stringValue, outs[1].options) \o <<34>>
       /\ pc = "reparsed"
       /\ reparsed.type = "String"
       /\ operator_string(reparsed) = json.stringValue

\* a quote and U+ABCD, escaped with escapeNonAscii, have come back from the
\* text with the digits of the u escape in lower case
C29_Witness ==
    /\ pc = "reparsed"
    /\ json.stringValue = <<34, 43981>>
    /\ outs[1].options.escapeNonAscii
    /\ text = <<34, 92, 34, 92, 117, 97, 98, 99, 100, 34>>
    /\ operator_string(reparsed) = <<34, 43981>>

(***************************************************************************)
(* What the specification says escape writes for one codepoint: the short  *)
(* form for the quote, the backslash and five control characters, a u      *)
(* escape of four upper-case hex digits for the other codepoints below     *)
(* 0x20 and, with escapeNonAscii, for 0x80..0xFFFF, the codepoint itself   *)
(* otherwise.                                                              *)
(***************************************************************************)
ShortFormOf ==
    (34 :> 34) @@ (92 :> 92) @@ (8 :> 98) @@ (12 :> 102) @@ (10 :> 110) @@
    (13 :> 114) @@ (9 :> 116)

EscapedAsSpecified(c, escapeNonAscii) ==
    IF c \in DOMAIN ShortFormOf THEN <<92, ShortFormOf[c]>>
    ELSE IF c < 32 THEN UEscapeOf(c)
    ELSE IF escapeNonAscii /\ c >= 128 /\ c <= 65535 THEN UEscapeOf(c)
    ELSE <<c>>

(***************************************************************************)
(* C30  Escaping of special characters: with default options escape writes *)
(* for each codepoint c a backslash and the short form for the quote, the  *)
(* backslash and the control characters 0x08, 0x0C, 0x0A, 0x0D and 0x09,   *)
(* a u escape of exactly four upper-case hex digits for every other        *)
(* c < 0x20, and c unchanged otherwise (the solidus and every c > 0x7F     *)
(* too); with escapeNonAscii every c in 0x80..0xFFFF becomes a u escape of *)
(* four hex digits.                                                        *)
(***************************************************************************)
C30_EscapingOfSpecialCharacters ==
    (pc \in {"encoded", "reparsed"} /\ json.type = "String" /\ Len(outs) = 1
        /\ (outs[1].options.escapeNonAscii
                => \A i \in 1..Len(json.stringValue) : json.stringValue[i] <= 65535))
    => LET s == json.stringValue
           escapeNonAscii == outs[1].options.escapeNonAscii
       IN  outs[1].s =
               <<34>> \o Concat([i \in 1..Len(s) |-> EscapedAsSpecified(s[i], escapeNonAscii)])
                      \o <<34>>

\* U+001F and the solidus have been encoded with the default options
C30_Witness ==
    /\ pc = "encoded"
    /\ json.stringValue = <<31, 47>>
    /\ outs[1].options = DefaultOptions
    /\ outs[1].s = <<34, 92, 117, 48, 48, 49, 70, 47, 34>>

(***************************************************************************)
(* The dangling parts of a number text: it ends right after a point, after *)
(* e or E or after the sign of an exponent; a point is not followed by a   *)
(* digit; it starts with a point, a minus sign set aside; or it holds a    *)
(* character the number grammar has no use for.                            *)
(***************************************************************************)
IsExponentLetter(c) == c = 101 \/ c = 69

IsSign(c) == c = 43 \/ c = 45

InNumberAlphabet(c) == IsDecimalDigit(c) \/ c = 46 \/ IsExponentLetter(c) \/ IsSign(c)

EndsDangling(s) ==
    /\ s # <<>>
    /\ \/ s[Len(s)] = 46
       \/ IsExponentLetter(s[Len(s)])
       \/ Len(s) >= 2 /\ IsSign(s[Len(s)]) /\ IsExponentLetter(s[Len(s) - 1])

PointWithoutDigit(s) ==
    \E i \in 1..Len(s) : s[i] = 46 /\ (i = Len(s) \/ ~IsDecimalDigit(s[i + 1]))

StartsWithPoint(s) == Unsigned(s) # <<>> /\ Unsigned(s)[1] = 46

HasForeignCharacter(s) == \E i \in 1..Len(s) : ~InNumberAlphabet(s[i])

HasDanglingPart(s) ==
    EndsDangling(s) \/ PointWithoutDigit(s) \/ StartsWithPoint(s) \/ HasForeignCharacter(s)

(***************************************************************************)
(* C31  Floating-point mode rejects dangling parts: a text with a point,   *)
(* an e or an E that ends right after the point, after the e or E or after *)
(* the sign of the exponent, whose point is not followed by a digit, that  *)
(* starts with a point (.5, -.5), or that holds a character outside the    *)
(* grammar, makes FromString return Invalid.                               *)
(***************************************************************************)
C31_DanglingPartsRejected ==
    (Parsed /\ HasFloatIndicator(text) /\ HasDanglingPart(text))
        => json.type = "Invalid"

\* 5.05e+ has been parsed
C31_Witness ==
    /\ pc = "parsed"
    /\ text = <<53, 46, 48, 53, 101, 43>>
    /\ json.type = "Invalid"

(***************************************************************************)
(* C32  Floating-point mode accepts the whole grammar: a text made of an   *)
(* optional minus sign, an integral part (0, or a nonzero digit and more   *)
(* digits), an optional point with one or more digits and an optional e or *)
(* E with an optional sign and one or more digits, that has a point, an e  *)
(* or an E, parses to a FloatingPoint, also with an exponent and no        *)
(* fraction (5e5) and with a signed exponent; a text with no point, e or E *)
(* is never parsed as a FloatingPoint.  The digits of the texts here are   *)
(* too few to overflow.                                                    *)
(***************************************************************************)
C32_FloatGrammarAccepted ==
    Parsed
        => /\ (NumberGrammar(text) /\ HasFloatIndicator(text))
                => json.type = "FloatingPoint"
           /\ ~HasFloatIndicator(text) => json.type # "FloatingPoint"

\* 10.5E+5 has been parsed to 105 * 10^4
C32_Witness ==
    /\ pc = "parsed"
    /\ text = <<49, 48, 46, 53, 69, 43, 53>>
    /\ json.type = "FloatingPoint"
    /\ json.floatingPointValue = [kind |-> "finite", neg |-> FALSE, mant |-> 105, exp |-> 4]

(***************************************************************************)
(* C33  Whitespace trimming: for every text t and all strings w1 and w2 of *)
(* spaces, tabs, CRs and LFs, FromString(w1 + t + w2) equals FromString(t) *)
(* and, when Invalid, renders the same diagnostic text; an empty text and  *)
(* a text of whitespace only give Invalid; no other codepoint is taken for *)
(* whitespace, so a text with one before or after it is no longer the      *)
(* value it was; and whitespace around the key and element spans inside a  *)
(* container changes nothing either.                                       *)
(***************************************************************************)
C33_WhitespaceTrimming ==
    /\ (pc \in {"parsed", "encoded", "padded"} /\ Trimmed(text) = <<>>)
            => (json.type = "Invalid" /\ reparsed.type = "Invalid")
    /\ pc = "padded"
            => /\ Equals(reparsed, json)
               /\ Equals(json, reparsed)
               /\ ToStringS(reparsed, DefaultOptions) = outs[1].s
    /\ pc = "framed" => reparsed.type = "Invalid"
    /\ pc = "spaced" => (Equals(reparsed, json) /\ Equals(json, reparsed))

\* {"a":1,"b":[5]} with CR LF before it and a space and a tab after it has
\* been parsed to the Object the bare text gave
C33_Witness ==
    /\ pc = "padded"
    /\ text = <<13, 10, 123, 34, 97, 34, 58, 49, 44, 34, 98, 34, 58, 91, 53, 93, 125, 32, 9>>
    /\ reparsed.type = "Object"
    /\ json.type = "Object"
    /\ outs[1].s = <<123, 34, 97, 34, 58, 49, 44, 34, 98, 34, 58, 91, 53, 93, 125>>

(***************************************************************************)
(* The pretty layout of a value at nesting depth d, four spaces per level: *)
(* a container that is not empty is its opening bracket, CRLF, its         *)
(* children each on a line of its own, indented one level more and         *)
(* separated by a comma and CRLF, then CRLF, the indentation of the        *)
(* container itself and the closing bracket; an entry of an object is its  *)
(* key, a colon, one space and its value.                                  *)
(***************************************************************************)
RECURSIVE PrettyLayout(_, _)
RECURSIVE PrettyLines(_, _, _)
PrettyLines(items, i, d) ==
    IF i > Len(items) THEN <<>>
    ELSE LET item == items[i]
             one == IF "key" \in DOMAIN item
                    THEN <<34>> \o escape(item.key, DefaultOptions) \o <<34, 58, 32>>
                         \o PrettyLayout(item.value, d)
                    ELSE PrettyLayout(item, d)
         IN  (IF i = 1 THEN <<>> ELSE <<44, 13, 10>>) \o Spaces(d * 4) \o one
                 \o PrettyLines(items, i + 1, d)

PrettyLayout(v, d) ==
    IF v.type = "Array" /\ v.arrayValues # <<>>
    THEN <<91, 13, 10>> \o PrettyLines(v.arrayValues, 1, d + 1)
             \o <<13, 10>> \o Spaces(d * 4) \o <<93>>
    ELSE IF v.type = "Object" /\ v.objectValues # <<>>
    THEN <<123, 13, 10>> \o PrettyLines(v.objectValues, 1, d + 1)
             \o <<13, 10>> \o Spaces(d * 4) \o <<125>>
    ELSE Canonical(v)

\* v is an empty container or has one somewhere below it
RECURSIVE HoldsEmptyContainer(_)
HoldsEmptyContainer(v) ==
    \/ v.type = "Array" /\ v.arrayValues = <<>>
    \/ v.type = "Object" /\ v.objectValues = <<>>
    \/ \E i \in 1..Len(v.arrayValues) : HoldsEmptyContainer(v.arrayValues[i])
    \/ \E i \in 1..Len(v.objectValues) : HoldsEmptyContainer(v.objectValues[i].value)

(***************************************************************************)
(* C34  Pretty-print layout: with prettyPrint and deleteCache, an Array or *)
(* Object that is not empty is written at depth d as its opening bracket,  *)
(* CRLF, every child on its own line indented by (d + 1) times four spaces *)
(* and separated by a comma and CRLF, then CRLF, d times four spaces and   *)
(* the closing bracket, an object entry as "key": value; and FromString of *)
(* that text, encoded again with the same options, gives the text back     *)
(* byte for byte.                                                          *)
(***************************************************************************)
C34_PrettyLayout ==
    (Len(outs) = 2 /\ outs[2].options = PrettyAnew
        /\ json.type \in {"Array", "Object"} /\ ~HoldsEmptyContainer(json))
    => /\ outs[2].s = PrettyLayout(json, 0)
       /\ pc = "reparsed" => ToStringS(reparsed, PrettyAnew) = outs[2].s


(***************************************************************************)
(* C35  Deterministic object encoding: an Object's entries are encoded in  *)
(* ascending key order whatever the order of the set() calls, so when two  *)
(* values built through the constructors and mutators compare equal, two   *)
(* ToString calls with deleteCache and equal options, one on each, return  *)
(* identical strings.                                                      *)
(***************************************************************************)
\* the text of an encode call begins with the least key of the object
LeastKeyFirst ==
    (op.name = "encode" /\ ~op.options.prettyPrint /\ ~op.options.escapeNonAscii
        /\ Target.type = "Object" /\ Target.objectValues # <<>>)
    => /\ \A i \in 1..Len(Target.objectValues) - 1 :
             LexLess(Target.objectValues[i].key, Target.objectValues[i + 1].key)
       /\ \E k \in {Target.objectValues[1].key} :
             SubSeq(op.out, 1, Len(k) + 3) = <<123, 34>> \o k \o <<34>>

\* a ToString call on one variable followed by one on the other
EncodedOneThenOther ==
    /\ op.name = "encode" /\ op'.name = "encode"
    /\ op.root # op'.root
    /\ op.target = roots[op.root] /\ op'.target = roots'[op'.root]
    /\ op.options = op'.options /\ op.options.deleteCache

C35_DeterministicObjectEncoding ==
    [][/\ LeastKeyFirst'
       /\ (EncodedOneThenOther /\ Equals(Trees.a, Trees.b)) => op'.out = op.out]_vars

\* objects with the same two entries, set in either order, encoded alike
C35_Witness ==
    /\ op.name = "encode" /\ op.root = "b" /\ op.options = CompactAnew
    /\ roots.a # 0
    /\ Trees.a.type = "Object" /\ Len(Trees.a.objectValues) = 2
    /\ Equals(Trees.a, Trees.b)
    /\ Trees.a.encoding = op.out


(***************************************************************************)
(* C36  Parsing terminates: for every finite input FromString finishes; in *)
(* the array and object loops every iteration that does not abort strictly *)
(* increases the scan offset (a successful key or element scan consumes at *)
(* least one codepoint), the offset never exceeds the interior length, and *)
(* recursion is only on strictly shorter spans.                            *)
(***************************************************************************)
\* a successful scan moves the offset, and so does a whole iteration
ScanProgress ==
    \A i \in 1..Len(frames) :
       i <= Len(frames')
       => /\ (frames[i].stage \in {"element", "key"} /\ frames'[i].stage = "call")
                => frames'[i].offset > frames[i].offset
          /\ (frames[i].stage = "await" /\ frames'[i].stage = "head")
                => frames'[i].offset > frames[i].begun

OffsetsWithinInterior ==
    \A i \in 1..Len(frames) : frames[i].offset <= Len(frames[i].interior)

ShorterSpans ==
    \A i \in 1..Len(frames) - 1 : Len(frames[i + 1].text) < Len(frames[i].text)

\* the type the steps arrive at is the type FromString returns
ScanAgrees ==
    (pc = "parsed" /\ frames # <<>>) => frames[1].result = FromString(text, wrapv).type

\* the call is over: it has returned, or undefined behaviour has ended the run
FromStringEnded == pc \in {"parsed", "fault"}

\* a call that is not over has a next step: every stage on top has its action
NeverStuck ==
    pc = "scanning"
        => /\ frames # <<>>
           /\ Top.stage \in {"head", "element", "key", "value", "call", "done"}
           /\ \A i \in 1..Len(frames) - 1 : frames[i].stage = "await"

\* a bound on the steps of the loop from its test on, n codepoints being left
StepsFromHead(n) == 4 * n * n + 13 * n + 2

\* a bound on the steps a frame still takes, the calls it waits for apart
StepsOfFrame(frame, awaited) ==
    LET left == Len(frame.interior) - frame.offset
        call == 4 * Len(frame.span) * Len(frame.span) + 4
    IN  IF frame.stage = "done" THEN 1
        ELSE IF frame.stage = "head" THEN StepsFromHead(left)
        ELSE IF frame.stage \in {"element", "key"} THEN StepsFromHead(left) - 1
        ELSE IF frame.stage = "value" THEN StepsFromHead(left) + 6
        ELSE IF frame.stage = "call"
        THEN StepsFromHead(left) + call + (IF frame.calls = "key" THEN 7 ELSE 0)
        ELSE IF awaited = "key" THEN StepsFromHead(left) + 7
        ELSE StepsFromHead(left)

RECURSIVE StepsOfFrames(_)
StepsOfFrames(i) ==
    IF i > Len(frames) THEN 0
    ELSE StepsOfFrame(frames[i], IF i < Len(frames) THEN frames[i + 1].role ELSE "none")
            + StepsOfFrames(i + 1)

\* a bound on the steps left until the call is over
StepsLeft ==
    IF pc = "start" THEN StepsFromHead(Len(text)) + 3
    ELSE IF pc = "scanning" THEN StepsOfFrames(1) + 1
    ELSE 0

C36_ParsingTerminates ==
    /\ [][ScanProgress /\ StepsLeft' < StepsLeft]_vars
    /\ [](OffsetsWithinInterior /\ ShorterSpans /\ ScanAgrees /\ NeverStuck)

\* an object of two entries has been walked to its end
C36_Witness ==
    /\ pc = "parsed" /\ frames # <<>> /\ frames[1].result = "Object"
    /\ text = <<123, 34, 97, 34, 58, 49, 44, 34, 97, 34, 58, 49, 125>>
    /\ frames[1].offset = Len(frames[1].interior)
    /\ frames[1].offset > frames[1].begun /\ frames[1].begun > 0


(***************************************************************************)
(* C37  Copying preserves the encoding: for every value v, also an Invalid *)
(* value returned by FromString and a value parsed from a text that is not *)
(* canonical, a copy c of v (copy construction, copy assignment, or the    *)
(* copy stored by add, insert or set) has ToString(c) = ToString(v) under  *)
(* the default options; the copy of an Invalid value still shows the       *)
(* source text in its diagnostic text.                                     *)
(***************************************************************************)
\* the copy that the last add, insert or set stored in its container
StoredCopy ==
    IF op.name = "add" THEN Target.arrayValues[Len(Target.arrayValues)]
    ELSE IF op.name = "insert"
    THEN Target.arrayValues[Min(op.index, Len(op.targetBefore.arrayValues)) + 1]
    ELSE Target.objectValues[MapFind(Target.objectValues, op.key)].value

C37_CopyKeepsEncoding ==
    /\ op.name = "copy"
          => ToStringS(Target, DefaultOptions) = ToStringS(op.arg, DefaultOptions)
    /\ op.name \in {"add", "insert", "set"}
          => ToStringS(StoredCopy, DefaultOptions) = ToStringS(op.arg, DefaultOptions)


(***************************************************************************)
(* C38  A string literal is one quoted token: FromString returns a String  *)
(* only when there is no unescaped double quote between the first and the  *)
(* last double quote of the text; a text such as "a"b" or "a","b" gives    *)
(* Invalid, and so does an object text with such a text for its key, as    *)
(* {"a","b":1}.                                                            *)
(***************************************************************************)
\* whether s has, from position i on, a double quote with no backslash for it
RECURSIVE HasUnescapedQuoteFrom(_, _)
HasUnescapedQuoteFrom(s, i) ==
    IF i > Len(s) THEN FALSE
    ELSE IF s[i] = 92 THEN HasUnescapedQuoteFrom(s, i + 2)
    ELSE IF s[i] = 34 THEN TRUE
    ELSE HasUnescapedQuoteFrom(s, i + 1)

\* the text is more than one quoted token
SeveralTokens(s) == IsQuotedText(s) /\ HasUnescapedQuoteFrom(InteriorOf(s), 1)

C38_StringIsOneToken ==
    pc = "parsed"
        => /\ SeveralTokens(text) => json.type = "Invalid"
           /\ \A key \in QuotedTexts :
                 (text = ObjectWithKey(key) /\ SeveralTokens(key)) => json.type = "Invalid"


(***************************************************************************)
(* C39  Element separators are strict: an Array that FromString returns    *)
(* for a text with a non-empty interior has one element more than the      *)
(* interior has top-level commas; an interior with a trailing comma        *)
(* ([1,]), a leading comma ([,1]) or two adjacent commas ([1,,2]) gives    *)
(* Invalid.                                                                *)
(***************************************************************************)
\* the positions of the commas of s, from i on, outside strings and brackets
RECURSIVE TopLevelCommasFrom(_, _)
TopLevelCommasFrom(s, i) ==
    LET k == ScanSpan(s, i, <<>>, 44)
    IN  IF k.delimited THEN {k.last} \cup TopLevelCommasFrom(s, k.last + 1) ELSE {}

\* a comma with no element before it or none after it
HasStrayComma(s) ==
    LET commas == TopLevelCommasFrom(s, 1)
    IN  1 \in commas \/ Len(s) \in commas \/ \E i \in commas : i + 1 \in commas

C39_StrictSeparators ==
    LET s == InteriorOf(text)
    IN  (pc = "parsed" /\ ContainerKind(Trimmed(text)) = "Array" /\ s # <<>>)
            => /\ json.type = "Array"
                     => Len(json.arrayValues) = Cardinality(TopLevelCommasFrom(s, 1)) + 1
               /\ HasStrayComma(s) => json.type = "Invalid"

====
